---- MODULE Spec2Model ----
(***************************************************************************)
(* Model of the read-path cache of the expense tracker: the LRUCache       *)
(* class, the four named cache instances and the user-scoped invalidation  *)
(* helpers of lib/cache (src/unnamed/part_019).                            *)
(*                                                                         *)
(* Strings are sequences of one-character strings, so that the glob to     *)
(* regular-expression translation of deletePattern and the matching of     *)
(* the resulting expression are computed character by character.           *)
(* An optional value (T | undefined) is a sequence of length 0 or 1.       *)
(***************************************************************************)
EXTENDS Integers, Sequences, FiniteSets, TLC

\* ------------------------------------------------------------------------
\* Bounds of the model
\* ------------------------------------------------------------------------

\* Largest options.maxSize a test instance is constructed with.
MaxOptSize == 2

\* Number of calls made on the four named instances.
MaxRegistryCalls == 3

\* Largest value of the clock (Date.now(), in milliseconds).
MaxTime == 2

\* Number of calls made on the test instance after its warm-up.
MaxCalls == 2

\* Number of keys set in the warm-up of the test instance.
MaxWarm == 2
MaxRequests == 2
MaxListRequests == 3
MaxStoreIds == 2
MaxPending == 2
MaxDocs == 3

\* The pages a traversal with cursorPaginate asks for at most.
MaxPages == 3

\* The last epoch day of the dates given to the date helpers.
MaxDay == 2

\* The transactions of the collection the aggregation helpers read.
MaxTransactions == 2

\* The connectDB calls of a process.
MaxCallers == 4

\* ------------------------------------------------------------------------
\* Optional values and strings
\* ------------------------------------------------------------------------

Undefined == <<>>

Some(x) == <<x>>

IsDefined(o) == o # <<>>

\* s with every occurrence of the character ch replaced by the string rep:
\* String.prototype.replace with a global one-character pattern.
RECURSIVE ReplaceAll(_, _, _)
ReplaceAll(s, ch, rep) ==
    IF s = <<>> THEN <<>>
    ELSE (IF Head(s) = ch THEN rep ELSE <<Head(s)>>)
         \o ReplaceAll(Tail(s), ch, rep)

\* ------------------------------------------------------------------------
\* new RegExp(source) and RegExp.prototype.test, for the characters the
\* model's patterns are written in: literals, ".", "*", "\:", "(" and "[".
\* The patterns hold no backslash, ")" or "]", so the only escape that
\* reaches the parser is the "\:" the translation itself writes, every "("
\* is an unterminated group and every "[" an unterminated class.
\* ------------------------------------------------------------------------

\* The constructor's results: the expression's atoms, or the SyntaxError it
\* throws.
Compiled(atoms) == [threw |-> FALSE, atoms |-> atoms]

SyntaxError == [threw |-> TRUE, atoms |-> <<>>]

Lit(ch) == [kind |-> "lit", ch |-> ch, star |-> FALSE]

AnyChar == [kind |-> "any", ch |-> ".", star |-> FALSE]

\* The expression parsed from position i on, acc being the atoms read so far.
RECURSIVE ParseRegExp(_, _, _)
ParseRegExp(src, i, acc) ==
    IF i > Len(src) THEN Compiled(acc)
    ELSE LET c == src[i] IN
         CASE c = "\\" ->
                IF i + 1 > Len(src) THEN SyntaxError
                ELSE ParseRegExp(src, i + 2, Append(acc, Lit(src[i + 1])))
           [] c = "." -> ParseRegExp(src, i + 1, Append(acc, AnyChar))
           [] c = "*" ->
                IF acc = <<>> \/ acc[Len(acc)].star THEN SyntaxError
                ELSE ParseRegExp(src, i + 1,
                        [acc EXCEPT ![Len(acc)].star = TRUE])
           [] c = "(" -> SyntaxError
           [] c = "[" -> SyntaxError
           [] OTHER -> ParseRegExp(src, i + 1, Append(acc, Lit(c)))

NewRegExp(src) == ParseRegExp(src, 1, <<>>)

AtomMatches(a, ch) == a.kind = "any" \/ a.ch = ch

\* Whether atoms ai.. match a prefix of s starting at position si.
RECURSIVE MatchFrom(_, _, _, _)
MatchFrom(atoms, ai, s, si) ==
    IF ai > Len(atoms) THEN TRUE
    ELSE LET a == atoms[ai] IN
         IF a.star
         THEN \/ MatchFrom(atoms, ai + 1, s, si)
              \/ /\ si <= Len(s)
                 /\ AtomMatches(a, s[si])
                 /\ MatchFrom(atoms, ai, s, si + 1)
         ELSE /\ si <= Len(s)
              /\ AtomMatches(a, s[si])
              /\ MatchFrom(atoms, ai + 1, s, si + 1)

\* regex.test(key) of an expression without flags: a match anywhere in key.
RegExpTest(regex, key) ==
    \E i \in 1..(Len(key) + 1) : MatchFrom(regex.atoms, 1, key, i)

\* pattern.replace(/\*/g, ".*").replace(/:/g, "\\:")
GlobToRegExpSource(pattern) ==
    ReplaceAll(ReplaceAll(pattern, "*", <<".", "*">>), ":", <<"\\", ":">>)

\* ------------------------------------------------------------------------
\* LRUCache: an instance is [cache, maxSize, defaultTTL, stats]; cache is
\* the Map as the sequence of its entries in the Map's iteration order,
\* each entry the CacheEntry with its key.
\* ------------------------------------------------------------------------

DefaultMaxSize == 500

DefaultTTLMillis == 300000

CacheEntry(key, value, timestamp, hits, ttl) ==
    [key |-> key, value |-> value, timestamp |-> timestamp,
     hits |-> hits, ttl |-> ttl]

\* options.maxSize || 500 and options.defaultTTL || 5 * 60 * 1000: an
\* option that is 0 is replaced like one that is not given.
NewLRUCache(optMaxSize, optDefaultTTL) ==
    [cache |-> <<>>,
     maxSize |-> IF optMaxSize = 0 THEN DefaultMaxSize ELSE optMaxSize,
     defaultTTL |-> IF optDefaultTTL = 0 THEN DefaultTTLMillis ELSE optDefaultTTL,
     stats |-> [hits |-> 0, misses |-> 0, size |-> 0,
                hitRate |-> <<0, 1>>, evictions |-> 0]]

KeysOf(c) == {c.cache[i].key : i \in 1..Len(c.cache)}

\* Position of key in the Map, 0 when the Map does not hold it.
IndexOf(c, key) ==
    IF key \in KeysOf(c)
    THEN CHOOSE i \in 1..Len(c.cache) : c.cache[i].key = key
    ELSE 0

\* The sequence without its i-th element: Map.delete of the i-th key.
RemoveAt(seq, i) == SubSeq(seq, 1, i - 1) \o SubSeq(seq, i + 1, Len(seq))

\* now - entry.timestamp > entry.ttl
IsExpired(entry, t) == t - entry.timestamp > entry.ttl

\* updateHitRate: (hits / total) * 100 kept as the fraction <<hits * 100, total>>.
UpdateHitRate(stats) ==
    LET total == stats.hits + stats.misses IN
    [stats EXCEPT !.hitRate = IF total > 0 THEN <<stats.hits * 100, total>>
                                           ELSE <<0, 1>>]

\* Get with a sliding expiry: a hit also restarts the entry's timestamp.
GetSliding(c, key, t) ==
    LET i == IndexOf(c, key) IN
    IF i = 0
    THEN [c |-> [c EXCEPT !.stats =
                    UpdateHitRate([c.stats EXCEPT !.misses = @ + 1])],
          ret |-> Undefined]
    ELSE LET entry == c.cache[i] IN
         IF IsExpired(entry, t)
         THEN [c |-> [c EXCEPT !.cache = RemoveAt(c.cache, i),
                               !.stats = UpdateHitRate(
                                   [c.stats EXCEPT !.misses = @ + 1,
                                                   !.evictions = @ + 1])],
               ret |-> Undefined]
         ELSE [c |-> [c EXCEPT !.cache = Append(RemoveAt(c.cache, i),
                                            [entry EXCEPT !.hits = @ + 1,
                                                          !.timestamp = t]),
                               !.stats = UpdateHitRate(
                                   [c.stats EXCEPT !.hits = @ + 1])],
               ret |-> Some(entry.value)]

\* get(key) at clock time t: the instance after the call and the value returned.
Get(c, key, t) ==
    LET i == IndexOf(c, key) IN
    IF i = 0
    THEN [c |-> [c EXCEPT !.stats =
                    UpdateHitRate([c.stats EXCEPT !.misses = @ + 1])],
          ret |-> Undefined]
    ELSE LET entry == c.cache[i] IN
         IF IsExpired(entry, t)
         THEN [c |-> [c EXCEPT !.cache = RemoveAt(c.cache, i),
                               !.stats = UpdateHitRate(
                                   [c.stats EXCEPT !.misses = @ + 1,
                                                   !.evictions = @ + 1])],
               ret |-> Undefined]
         ELSE [c |-> [c EXCEPT !.cache = Append(RemoveAt(c.cache, i),
                                            [entry EXCEPT !.hits = @ + 1]),
                               !.stats = UpdateHitRate(
                                   [c.stats EXCEPT !.hits = @ + 1])],
               ret |-> Some(entry.value)]

\* EvictIfFull with the capacity test off by one (size > maxSize).
EvictIfFullWhenOver(c, key) ==
    IF Len(c.cache) > c.maxSize /\ key \notin KeysOf(c) /\ c.cache # <<>>
    THEN [c EXCEPT !.cache = Tail(c.cache), !.stats.evictions = @ + 1]
    ELSE c

\* The eviction step of set: when the Map is full and key is new, the first
\* key of the Map's iteration order is deleted.
EvictIfFull(c, key) ==
    IF Len(c.cache) >= c.maxSize /\ key \notin KeysOf(c) /\ c.cache # <<>>
    THEN [c EXCEPT !.cache = Tail(c.cache), !.stats.evictions = @ + 1]
    ELSE c

\* Map.set(key, entry): an existing key keeps its place in the iteration
\* order and gets the new entry; a new key goes to the end.
MapSet(cache, entry) ==
    IF \E i \in 1..Len(cache) : cache[i].key = entry.key
    THEN LET i == CHOOSE j \in 1..Len(cache) : cache[j].key = entry.key
         IN SubSeq(cache, 1, i - 1) \o <<entry>> \o SubSeq(cache, i + 1, Len(cache))
    ELSE Append(cache, entry)

\* ttl || this.defaultTTL: a ttl of 0 is falsy, like one that is not given.
EffectiveTTL(c, ttl) ==
    IF ttl = Undefined \/ ttl = Some(0) THEN c.defaultTTL ELSE ttl[1]

\* set(key, value, ttl) at clock time t.
Set(c, key, value, ttl, t) ==
    LET e == EvictIfFull(c, key)
        cache == MapSet(e.cache,
                        CacheEntry(key, value, t, 0, EffectiveTTL(c, ttl)))
    IN [e EXCEPT !.cache = cache, !.stats.size = Len(cache)]

\* delete(key)
Delete(c, key) ==
    LET i == IndexOf(c, key)
        cache == IF i = 0 THEN c.cache ELSE RemoveAt(c.cache, i)
    IN [c |-> [c EXCEPT !.cache = cache, !.stats.size = Len(cache)],
        ret |-> i # 0]

\* clear()
Clear(c) == [c EXCEPT !.cache = <<>>, !.stats.size = 0]

\* Whether deletePattern(pattern) deletes key: the test of the expression
\* built from the pattern.
PatternDeletes(pattern, key) ==
    RegExpTest(NewRegExp(GlobToRegExpSource(pattern)), key)

\* deletePattern(pattern): the constructor's SyntaxError leaves the call
\* before anything is deleted; otherwise every key the expression matches is
\* deleted and counted.
DeletePattern(c, pattern) ==
    IF NewRegExp(GlobToRegExpSource(pattern)).threw
    THEN [c |-> c, ret |-> 0, threw |-> TRUE]
    ELSE LET Keep(entry) == ~PatternDeletes(pattern, entry.key)
             cache == SelectSeq(c.cache, Keep)
         IN [c |-> [c EXCEPT !.cache = cache, !.stats.size = Len(cache)],
             ret |-> Len(c.cache) - Len(cache),
             threw |-> FALSE]

\* has counting an expired entry as an eviction, as get does.
HasCounted(c, key, t) ==
    LET i == IndexOf(c, key) IN
    IF i = 0 THEN [c |-> c, ret |-> FALSE]
    ELSE IF IsExpired(c.cache[i], t)
         THEN [c |-> [c EXCEPT !.cache = RemoveAt(c.cache, i),
                               !.stats = [c.stats EXCEPT !.evictions = @ + 1]],
               ret |-> FALSE]
         ELSE [c |-> c, ret |-> TRUE]

\* has(key) at clock time t
Has(c, key, t) ==
    LET i == IndexOf(c, key) IN
    IF i = 0 THEN [c |-> c, ret |-> FALSE]
    ELSE IF IsExpired(c.cache[i], t)
         THEN [c |-> [c EXCEPT !.cache = RemoveAt(c.cache, i)], ret |-> FALSE]
         ELSE [c |-> c, ret |-> TRUE]

\* cleanup() at clock time t: the timer's sweep.
Cleanup(c, t) ==
    LET Live(entry) == ~IsExpired(entry, t)
        cache == SelectSeq(c.cache, Live)
    IN IF Len(cache) < Len(c.cache)
       THEN [c EXCEPT !.cache = cache, !.stats.size = Len(cache)]
       ELSE c

\* ------------------------------------------------------------------------
\* Helper functions of the module: cache keys and user-scoped invalidation
\* ------------------------------------------------------------------------

StrUser == <<"u", "s", "e", "r">>

StrCategories == <<"c", "a", "t", "e", "g", "o", "r", "i", "e", "s">>

StrAll == <<"a", "l", "l">>

\* generateCacheKey(userId, resource, suffix): a suffix that is undefined,
\* null or the empty string is falsy and is left out.
GenerateCacheKey(userId, resource, suffix) ==
    IF suffix = Undefined \/ suffix = Some(<<>>)
    THEN StrUser \o <<":">> \o userId \o <<":">> \o resource
    ELSE StrUser \o <<":">> \o userId \o <<":">> \o resource \o <<":">> \o suffix[1]

\* `user:${userId}:*`
UserPattern(userId) == StrUser \o <<":">> \o userId \o <<":", "*">>

\* invalidateUserCache(userId) on the four instances reg: deletePattern on
\* each in turn; a SyntaxError of the first call leaves the function before
\* any instance is changed.
InvalidateUserCache(reg, userId) ==
    LET pattern == UserPattern(userId)
        a == DeletePattern(reg.categories, pattern)
        b == DeletePattern(reg.user, pattern)
        c == DeletePattern(reg.aggregation, pattern)
        d == DeletePattern(reg.general, pattern)
    IN IF a.threw
       THEN [reg |-> reg, ret |-> 0, threw |-> TRUE]
       ELSE [reg |-> [categories |-> a.c, user |-> b.c,
                      aggregation |-> c.c, general |-> d.c],
             ret |-> a.ret + b.ret + c.ret + d.ret,
             threw |-> FALSE]

\* clearAllCaches()
ClearAllCaches(reg) ==
    [categories |-> Clear(reg.categories), user |-> Clear(reg.user),
     aggregation |-> Clear(reg.aggregation), general |-> Clear(reg.general)]

\* ------------------------------------------------------------------------
\* State
\* ------------------------------------------------------------------------

VARIABLES
    options,            \* the CacheOptions the test instance was constructed with
    lru,                \* the test instance
    now,                \* Date.now()
    last,               \* the last call: its operation, argument and result
    calls,              \* history: the number of calls made on the instance
    given,              \* history: per held key, the ttl argument and the
                        \* clock time of the set that stored it
    touched,            \* history: the held keys, least recently touched first
    categoriesCache,    \* the four named instances
    userCache,
    aggregationCache,
    generalCache,
    requests,           \* the route handler invocations in flight or returned
    store,              \* the Category collection, in insertion order
    pending,            \* the getOrSet calls awaiting their fallback
    collection,         \* the collection a pagination helper queries
    page,               \* the last paginate call: options and result
    traversal,          \* a cursorPaginate traversal: options, pages so far
    helper,             \* the last call of a date or aggregation helper
    db                  \* the connection state of lib/dbConnect

registry == <<categoriesCache, userCache, aggregationCache, generalCache>>

\* The state outside the cache module: handlers, stores, query helpers.
appVars == <<requests, store, pending, collection, page, traversal, helper, db>>

vars == <<options, lru, now, last, calls, given, touched,
          categoriesCache, userCache, aggregationCache, generalCache, appVars>>

\* No handler has been invoked, no helper called and the collections are empty.
AppIdle ==
    /\ requests = <<>>
    /\ store = <<>>
    /\ pending = <<>>
    /\ collection = <<>>
    /\ page = <<>>
    /\ traversal = <<>>
    /\ helper = <<>>
    /\ db = <<>>

\* The module's four instances as constructed at load time.
RegistryInit ==
    /\ categoriesCache = NewLRUCache(1000, 600000)
    /\ userCache = NewLRUCache(500, 900000)
    /\ aggregationCache = NewLRUCache(200, 120000)
    /\ generalCache = NewLRUCache(500, 300000)

\* ------------------------------------------------------------------------
\* Spec: one LRUCache instance under every operation of its interface, the
\* timer's sweep and the passing of time.
\* ------------------------------------------------------------------------

Keys == {<<"a">>, <<"a", "b">>, <<"c">>}

Values == {"v1", "v2"}

TTLArgs == {Some(0), Some(1)}

DefaultTTLOptions == {0, 1}

Patterns == {<<"a">>, <<"*">>}

\* A call: the operation, its key (or pattern, or user id) argument, the
\* value and ttl arguments of a set, and what the call returned.
Call(op, key, ret) ==
    [op |-> op, key |-> key, value |-> Undefined, ttl |-> Undefined, ret |-> ret]

SetCall(key, value, ttl) ==
    [op |-> "set", key |-> key, value |-> Some(value), ttl |-> ttl, ret |-> <<>>]

NoCall == Call("new", <<>>, <<>>)

\* What deletePattern did: threw the constructor's SyntaxError, or returned count.
PatternResult(r) == [threw |-> r.threw, count |-> r.ret]

\* The history of the keys the instance c2 holds.
GivenAfter(c2) == [k \in KeysOf(c2) |-> given[k]]

TouchedAfter(c2) == SelectSeq(touched, LAMBDA k : k \in KeysOf(c2))

\* The instance after set(key, "v1") was called at clock time 0 for each key
\* of keys in turn: the cache as the first requests of a process leave it.
RECURSIVE WarmUp(_, _)
WarmUp(c, keys) ==
    IF keys = <<>> THEN c
    ELSE WarmUp(Set(c, Head(keys), "v1", Undefined, 0), Tail(keys))

\* The sequences of distinct keys a warm-up sets.
WarmUps ==
    {w \in UNION {[1..n -> Keys] : n \in 0..MaxWarm} :
        \A i, j \in 1..Len(w) : i # j => w[i] # w[j]}

Init ==
    /\ options \in [maxSize : 0..MaxOptSize, defaultTTL : DefaultTTLOptions]
    /\ \E w \in WarmUps :
        /\ lru = WarmUp(NewLRUCache(options.maxSize, options.defaultTTL), w)
        /\ touched = SelectSeq(w, LAMBDA k : k \in KeysOf(lru))
        /\ given = [k \in KeysOf(lru) |-> [ttl |-> Undefined, at |-> 0]]
    /\ now = 0
    /\ last = NoCall
    /\ calls = 0
    /\ RegistryInit
    /\ AppIdle

\* Calls are explored up to MaxCalls of them.
CanCall == calls < MaxCalls

\* A call on the instance: one more call, at the same clock time.
Called ==
    /\ calls' = calls + 1
    /\ UNCHANGED <<options, now, registry, appVars>>

SetOp ==
    /\ CanCall
    /\ \E key \in Keys, value \in Values, ttl \in TTLArgs :
        \E c2 \in {Set(lru, key, value, ttl, now)} :
            /\ Called
            /\ lru' = c2
            /\ last' = SetCall(key, value, ttl)
            /\ given' = [k \in KeysOf(c2) |->
                            IF k = key THEN [ttl |-> ttl, at |-> now] ELSE given[k]]
            /\ touched' = Append(SelectSeq(touched,
                                    LAMBDA k : k \in KeysOf(c2) /\ k # key), key)

GetOp ==
    /\ CanCall
    /\ \E key \in Keys :
        \E r \in {Get(lru, key, now)} :
            /\ Called
            /\ lru' = r.c
            /\ last' = Call("get", key, r.ret)
            /\ given' = GivenAfter(r.c)
            /\ touched' = IF IsDefined(r.ret)
                          THEN Append(SelectSeq(touched, LAMBDA k : k # key), key)
                          ELSE TouchedAfter(r.c)

HasOp ==
    /\ CanCall
    /\ \E key \in Keys :
        \E r \in {Has(lru, key, now)} :
            /\ Called
            /\ lru' = r.c
            /\ last' = Call("has", key, <<r.ret>>)
            /\ given' = GivenAfter(r.c)
            /\ touched' = TouchedAfter(r.c)

DeleteOp ==
    /\ CanCall
    /\ \E key \in Keys :
        \E r \in {Delete(lru, key)} :
            /\ Called
            /\ lru' = r.c
            /\ last' = Call("delete", key, <<r.ret>>)
            /\ given' = GivenAfter(r.c)
            /\ touched' = TouchedAfter(r.c)

DeletePatternOp ==
    /\ CanCall
    /\ \E pattern \in Patterns :
        \E r \in {DeletePattern(lru, pattern)} :
            /\ Called
            /\ lru' = r.c
            /\ last' = Call("deletePattern", pattern, PatternResult(r))
            /\ given' = GivenAfter(r.c)
            /\ touched' = TouchedAfter(r.c)

ClearOp ==
    /\ CanCall
    /\ Called
    /\ lru' = Clear(lru)
    /\ last' = Call("clear", <<>>, <<>>)
    /\ given' = <<>>
    /\ touched' = <<>>

\* The interval timer fires and cleanup() runs.
CleanupOp ==
    /\ CanCall
    /\ \E c2 \in {Cleanup(lru, now)} :
        /\ Called
        /\ lru' = c2
        /\ last' = Call("cleanup", <<>>, <<>>)
        /\ given' = GivenAfter(c2)
        /\ touched' = TouchedAfter(c2)

\* A millisecond passes.
Tick ==
    /\ now < MaxTime
    /\ now' = now + 1
    /\ UNCHANGED <<options, lru, last, calls, given, touched, registry, appVars>>

Next ==
    \/ SetOp
    \/ GetOp
    \/ HasOp
    \/ DeleteOp
    \/ DeletePatternOp
    \/ ClearOp
    \/ CleanupOp
    \/ Tick

Spec == Init /\ [][Next]_vars

\* ------------------------------------------------------------------------
\* SpecGlob: deletePattern on an instance of the default capacity, over keys
\* and patterns written with ":", "." and "*", and patterns the RegExp
\* constructor rejects.
\* ------------------------------------------------------------------------

GlobKeys == {<<"a">>, <<"a", "b">>, <<"a", ":", "b">>, <<"a", ".", "b">>, <<"b", "a">>}

GlobPatterns ==
    {<<"a">>, <<"a", "*">>, <<"a", ":", "*">>, <<"a", ".", "b">>, <<"*", "b">>,
     <<"*">>, <<"(">>, <<"a", "[">>}

InitGlob ==
    /\ options = [maxSize |-> 0, defaultTTL |-> 0]
    /\ lru = NewLRUCache(options.maxSize, options.defaultTTL)
    /\ now = 0
    /\ last = NoCall
    /\ calls = 0
    /\ given = <<>>
    /\ touched = <<>>
    /\ RegistryInit
    /\ AppIdle

GlobSetOp ==
    \E key \in GlobKeys :
        /\ lru' = Set(lru, key, "v1", Undefined, now)
        /\ last' = SetCall(key, "v1", Undefined)
        /\ UNCHANGED <<options, now, calls, given, touched, registry, appVars>>

GlobDeletePatternOp ==
    \E pattern \in GlobPatterns :
        \E r \in {DeletePattern(lru, pattern)} :
            /\ lru' = r.c
            /\ last' = Call("deletePattern", pattern, PatternResult(r))
            /\ UNCHANGED <<options, now, calls, given, touched, registry, appVars>>

NextGlob ==
    \/ GlobSetOp
    \/ GlobDeletePatternOp

SpecGlob == InitGlob /\ [][NextGlob]_vars

\* ------------------------------------------------------------------------
\* SpecRegistry: the four named instances under set calls with generated
\* keys, invalidateUserCache and clearAllCaches.  The only caller of
\* generateCacheKey, GET /api/categories, passes the request's type
\* parameter, any string, as the suffix.
\* ------------------------------------------------------------------------

CacheNames == {"categories", "user", "aggregation", "general"}

\* The four instances by name.
Registry ==
    [categories |-> categoriesCache, user |-> userCache,
     aggregation |-> aggregationCache, general |-> generalCache]

\* The four instances become reg.
RegistryBecomes(reg) ==
    /\ categoriesCache' = reg.categories
    /\ userCache' = reg.user
    /\ aggregationCache' = reg.aggregation
    /\ generalCache' = reg.general

UserIds == {<<"1">>, <<"2">>}

Resources == {StrCategories}

Suffixes == {Undefined, Some(StrAll), Some(StrUser \o <<":", "1", ":", "x">>)}

RegistryKeys ==
    {GenerateCacheKey(u, r, x) : u \in UserIds, r \in Resources, x \in Suffixes}

InitRegistry ==
    /\ options = [maxSize |-> 0, defaultTTL |-> 0]
    /\ lru = NewLRUCache(options.maxSize, options.defaultTTL)
    /\ now = 0
    /\ last = NoCall
    /\ calls = 0
    /\ given = <<>>
    /\ touched = <<>>
    /\ RegistryInit
    /\ AppIdle

\* Calls on the named instances are explored up to MaxRegistryCalls of them.
CanCallRegistry == calls < MaxRegistryCalls

\* A call on the named instances: one more call.
RegistryCalled ==
    /\ calls' = calls + 1
    /\ UNCHANGED <<options, lru, now, given, touched, appVars>>

\* A caller stores a value under a generated key in one of the instances.
RegistrySetOp ==
    \E name \in CacheNames, key \in RegistryKeys :
        /\ CanCallRegistry
        /\ RegistryCalled
        /\ RegistryBecomes([Registry EXCEPT
                                ![name] = Set(@, key, "v1", Undefined, now)])
        /\ last' = SetCall(key, "v1", Undefined)

InvalidateUserCacheOp ==
    /\ CanCallRegistry
    /\ \E userId \in UserIds :
        \E r \in {InvalidateUserCache(Registry, userId)} :
            /\ RegistryCalled
            /\ RegistryBecomes(r.reg)
            /\ last' = Call("invalidateUserCache", userId, PatternResult(r))

ClearAllCachesOp ==
    /\ CanCallRegistry
    /\ RegistryCalled
    /\ RegistryBecomes(ClearAllCaches(Registry))
    /\ last' = Call("clearAllCaches", <<>>, <<>>)

NextRegistry ==
    \/ RegistrySetOp
    \/ InvalidateUserCacheOp
    \/ ClearAllCachesOp

SpecRegistry == InitRegistry /\ [][NextRegistry]_vars

\* ------------------------------------------------------------------------
\* Properties of one instance (Spec)
\* ------------------------------------------------------------------------

\* The step is a call of op on the test instance.
Did(op) == calls' = calls + 1 /\ last'.op = op

\* The entry the instance c holds for key.
EntryOf(c, key) == c.cache[IndexOf(c, key)]

\* C1: an instance constructed with maxSize m >= 1 never holds more than m
\* entries, whatever is called on it, and a set on an instance that holds m
\* entries leaves it holding exactly m.
C1_SizeAtMostMaxSize ==
    [][options.maxSize >= 1 =>
          /\ Len(lru.cache) <= options.maxSize
          /\ Len(lru'.cache) <= options.maxSize
          /\ (Did("set") /\ Len(lru.cache) = options.maxSize
                => Len(lru'.cache) = options.maxSize)]_vars

\* A set on a full instance of capacity 2 has evicted a key.
C1_Witness ==
    /\ options.maxSize = 2
    /\ calls = 1
    /\ last.op = "set"
    /\ lru.stats.evictions = 1
    /\ Len(lru.cache) = 2

\* C2: a set of a new key on a full instance evicts exactly the key least
\* recently touched, a touch being a successful get or any set of the key.
C2_EvictsLeastRecentlyTouched ==
    [][(/\ Did("set")
        /\ options.maxSize >= 1
        /\ Len(lru.cache) = lru.maxSize
        /\ last'.key \notin KeysOf(lru))
          => KeysOf(lru) \ KeysOf(lru') = {Head(touched)}]_vars

\* C3: a key set with ttl T at time t0 and held since is returned by get at
\* time t when t - t0 < T and is absent when t - t0 >= T.
C3_ExpiresAtTTL ==
    [][\A k \in Keys :
          (/\ Did("get")
           /\ last'.key = k
           /\ k \in KeysOf(lru)
           /\ IsDefined(given[k].ttl))
             => IF now - given[k].at < given[k].ttl[1]
                THEN last'.ret = Some(EntryOf(lru, k).value)
                ELSE last'.ret = Undefined]_vars

\* C4: a get of an entry whose age, counted from the set that stored it,
\* exceeds its ttl returns nothing however often the entry was hit before;
\* the entry is removed, misses and evictions grow by one and hits stay.
C4_ExpiredNeverReturned ==
    [][\A k \in Keys :
          (/\ Did("get")
           /\ last'.key = k
           /\ k \in KeysOf(lru)
           /\ now - given[k].at > EntryOf(lru, k).ttl)
             => /\ last'.ret = Undefined
                /\ k \notin KeysOf(lru')
                /\ lru'.stats.misses = lru.stats.misses + 1
                /\ lru'.stats.evictions = lru.stats.evictions + 1
                /\ lru'.stats.hits = lru.stats.hits]_vars

\* The only key of an instance that never evicts for capacity was hit by a
\* first get and found expired, and removed, by a second.
C4_Witness ==
    /\ options.maxSize = 0
    /\ calls = 2
    /\ last.op = "get"
    /\ last.ret = Undefined
    /\ lru.stats.hits = 1
    /\ lru.stats.misses = 1
    /\ lru.stats.evictions = 1
    /\ lru.cache = <<>>

\* C5: a key set with ttl 0 and held since is absent for the next get, at
\* the same or a later clock time, and the get counts as a miss.
C5_ZeroTTLExpiresImmediately ==
    [][\A k \in Keys :
          (/\ Did("get")
           /\ last'.key = k
           /\ k \in KeysOf(lru)
           /\ given[k].ttl = Some(0))
             => /\ last'.ret = Undefined
                /\ lru'.stats.misses = lru.stats.misses + 1
                /\ lru'.stats.hits = lru.stats.hits]_vars

\* C6: a set of a key the instance holds replaces the entry's value, ttl and
\* timestamp, resets its hits, moves the key to the most recently used end,
\* removes no key and counts no eviction.
C6_OverwriteRefreshes ==
    [][(Did("set") /\ last'.key \in KeysOf(lru))
          => LET e2 == EntryOf(lru', last'.key) IN
             /\ last'.key \in KeysOf(lru')
             /\ Some(e2.value) = last'.value
             /\ (last'.ttl \notin {Undefined, Some(0)} => Some(e2.ttl) = last'.ttl)
             /\ e2.timestamp = now
             /\ e2.hits = 0
             /\ IndexOf(lru', last'.key) = Len(lru'.cache)
             /\ KeysOf(lru') = KeysOf(lru)
             /\ lru'.stats.evictions = lru.stats.evictions]_vars

\* C7: an instance constructed with maxSize 0 or 1 holds no more than that
\* many entries after a set, and with maxSize 1 exactly the key set last.
C7_SmallMaxSizeHonoured ==
    (options.maxSize \in {0, 1} /\ last.op = "set")
        => /\ Len(lru.cache) <= options.maxSize
           /\ (options.maxSize = 1 => KeysOf(lru) = {last.key})

\* ------------------------------------------------------------------------
\* Properties of deletePattern (SpecGlob)
\* ------------------------------------------------------------------------

\* The pattern read as a glob matches the whole of key from position ki on:
\* "*" stands for any substring, every other character for itself.
RECURSIVE GlobMatchFrom(_, _, _, _)
GlobMatchFrom(pattern, pi, key, ki) ==
    IF pi > Len(pattern) THEN ki > Len(key)
    ELSE IF pattern[pi] = "*"
         THEN \/ GlobMatchFrom(pattern, pi + 1, key, ki)
              \/ ki <= Len(key) /\ GlobMatchFrom(pattern, pi, key, ki + 1)
         ELSE /\ ki <= Len(key)
              /\ key[ki] = pattern[pi]
              /\ GlobMatchFrom(pattern, pi + 1, key, ki + 1)

GlobMatch(pattern, key) == GlobMatchFrom(pattern, 1, key, 1)

\* C8: deletePattern(p) removes exactly the keys whose whole string matches p
\* read as a glob, and returns how many it removed.
C8_DeletePatternIsGlob ==
    [][(last'.op = "deletePattern" /\ ~last'.ret.threw)
          => /\ KeysOf(lru') = {k \in KeysOf(lru) : ~GlobMatch(last'.key, k)}
             /\ last'.ret.count =
                    Cardinality(KeysOf(lru)) - Cardinality(KeysOf(lru'))]_vars

\* C9: deletePattern raises for no pattern, and a pattern that is not valid
\* syntax removes only the key equal to the pattern itself.
C9_DeletePatternNeverThrows ==
    [][last'.op = "deletePattern"
          => /\ ~last'.ret.threw
             /\ (NewRegExp(GlobToRegExpSource(last'.key)).threw
                   => KeysOf(lru') = KeysOf(lru) \ {last'.key})]_vars

\* ------------------------------------------------------------------------
\* Properties of the named instances (SpecRegistry)
\* ------------------------------------------------------------------------

\* The keys generateCacheKey produces for userId.
KeysOfUser(userId) ==
    {GenerateCacheKey(userId, r, x) : r \in Resources, x \in Suffixes}

\* The four instances as the step leaves them.
RegistryAfter ==
    [categories |-> categoriesCache', user |-> userCache',
     aggregation |-> aggregationCache', general |-> generalCache']

\* C10: after invalidateUserCache(u) none of the four instances holds a key
\* generated for u, and when none held one before, the call throws nothing
\* and leaves the entries of all four as they were.
C10_InvalidateRemovesOnlyOwnKeys ==
    [][last'.op = "invalidateUserCache"
          => /\ ~last'.ret.threw
             /\ \A name \in CacheNames :
                   KeysOf(RegistryAfter[name]) \cap KeysOfUser(last'.key) = {}
             /\ ((\A name \in CacheNames :
                     KeysOf(Registry[name]) \cap KeysOfUser(last'.key) = {})
                   => \A name \in CacheNames :
                        RegistryAfter[name].cache = Registry[name].cache)]_vars

\* The key begins with "user:<userId>:", the form of the keys of userId.
IsKeyOfUser(key, userId) ==
    LET prefix == StrUser \o <<":">> \o userId \o <<":">> IN
    /\ Len(key) >= Len(prefix)
    /\ SubSeq(key, 1, Len(prefix)) = prefix

\* The entries the instance c holds for userId, in the instance's order.
EntriesOfUser(c, userId) ==
    SelectSeq(c.cache, LAMBDA e : IsKeyOfUser(e.key, userId))

\* C11: invalidateUserCache(u1) leaves, in each of the four instances, every
\* entry whose key begins with user:u2: for another user u2 in place, with
\* its value and ttl and in the same order.
C11_InvalidateLeavesOtherUsers ==
    [][last'.op = "invalidateUserCache"
          => \A u2 \in UserIds \ {last'.key} : \A name \in CacheNames :
                EntriesOfUser(RegistryAfter[name], u2)
                    = EntriesOfUser(Registry[name], u2)]_vars

\* ------------------------------------------------------------------------
\* SpecRoutes: the route handlers that read or write categories, expenses
\* and incomes, one request at a time.  A handler is suspended at
\* connectDB and at each store call; the store executes a call, and the
\* handler resumes with the reply and runs to its next await or its return.
\* ------------------------------------------------------------------------

\* A handler that writes: the document kind it writes, the store read it
\* awaits before the write ("none" when there is none), whether
\* invalidateUserCache(user.userId) stands between the write and the success
\* response, whether it awaits populate on the written document before
\* that, and the status of the success response.
Handler(name, resource, kind, check, populates, invalidates, success) ==
    [name |-> name, resource |-> resource, kind |-> kind, check |-> check,
     populates |-> populates, invalidates |-> invalidates, success |-> success]

CategoriesGET ==
    Handler("GET /api/categories", "category", "list", "none", FALSE, FALSE, 200)
CategoriesPOST ==
    Handler("POST /api/categories", "category", "create", "duplicate", FALSE, TRUE, 201)
CategoriesPOSTBasic ==
    Handler("POST /api/categories (basic)", "category", "create", "none", FALSE, FALSE, 201)
CategoryPUT ==
    Handler("PUT /api/categories/[id]", "category", "update", "duplicate", FALSE, TRUE, 200)
CategoryDELETE ==
    Handler("DELETE /api/categories/[id]", "category", "delete", "usage", FALSE, TRUE, 200)
ExpensesPOSTBasic ==
    Handler("POST /api/expenses (basic)", "expense", "create", "none", TRUE, FALSE, 201)
ExpensePUTBasic ==
    Handler("PUT /api/expenses/[id] (basic)", "expense", "update", "none", FALSE, FALSE, 200)
ExpenseDELETEBasic ==
    Handler("DELETE /api/expenses/[id] (basic)", "expense", "delete", "none", FALSE, FALSE, 200)
ExpensePUT ==
    Handler("PUT /api/expenses/[id]", "expense", "update", "category", FALSE, TRUE, 200)
ExpenseDELETE ==
    Handler("DELETE /api/expenses/[id]", "expense", "delete", "none", FALSE, TRUE, 200)
IncomesPOSTBasic ==
    Handler("POST /api/incomes (basic)", "income", "create", "none", TRUE, FALSE, 201)
IncomesPOST ==
    Handler("POST /api/incomes", "income", "create", "category", TRUE, TRUE, 201)
IncomePUT ==
    Handler("PUT /api/incomes/[id]", "income", "update", "category", FALSE, TRUE, 200)
IncomeDELETE ==
    Handler("DELETE /api/incomes/[id]", "income", "delete", "none", FALSE, TRUE, 200)
IncomePUTBasic ==
    Handler("PUT /api/incomes/[id] (basic)", "income", "update", "none", FALSE, FALSE, 200)
IncomeDELETEBasic ==
    Handler("DELETE /api/incomes/[id] (basic)", "income", "delete", "none", FALSE, FALSE, 200)

\* Every exported handler of the repository that writes a category, an
\* expense or an income.
MutatingHandlers ==
    {CategoriesPOST, CategoriesPOSTBasic, CategoryPUT, CategoryDELETE,
     ExpensesPOSTBasic, ExpensePUTBasic, ExpenseDELETEBasic, ExpensePUT,
     ExpenseDELETE, IncomesPOSTBasic, IncomesPOST, IncomePUT, IncomeDELETE,
     IncomePUTBasic, IncomeDELETEBasic}

StrExpense == <<"e", "x", "p", "e", "n", "s", "e">>

StrIncome == <<"i", "n", "c", "o", "m", "e">>

\* The ttl GET /api/categories passes to categoriesCache.set: 10 minutes.
CategoriesTTLMillis == 600000

\* Category names, in ascending order of name.
CategoryNames == <<"a", "b">>

NameRank(name) == CHOOSE i \in 1..Len(CategoryNames) : CategoryNames[i] = name

\* The store before any document is created.
EmptyStore == [categories |-> <<>>, transactions |-> <<>>, nextId |-> 1]

\* doc placed into a sequence sorted ascending by name, after its equals.
RECURSIVE InsertByName(_, _)
InsertByName(sorted, doc) ==
    IF sorted = <<>> THEN <<doc>>
    ELSE IF NameRank(doc.name) < NameRank(Head(sorted).name)
         THEN <<doc>> \o sorted
         ELSE <<Head(sorted)>> \o InsertByName(Tail(sorted), doc)

\* .sort({ name: 1 })
RECURSIVE SortByName(_)
SortByName(docs) ==
    IF docs = <<>> THEN <<>>
    ELSE InsertByName(SortByName(SubSeq(docs, 1, Len(docs) - 1)), docs[Len(docs)])

\* The filter of GET /api/categories: the user's categories, of the type
\* when the type parameter is 'expense' or 'income'.
CategoryFilter(userId, type) ==
    [userId |-> userId,
     type |-> IF type \in {Some(StrExpense), Some(StrIncome)} THEN type ELSE Undefined]

\* Category.find(filter).select("name type color icon").sort({ name: 1 })
CategoryFind(st, filter) ==
    SortByName(SelectSeq(st.categories,
        LAMBDA d : /\ d.userId = filter.userId
                   /\ (IsDefined(filter.type) => Some(d.type) = filter.type)))

\* The cache key of GET /api/categories: the type parameter, or "all" when
\* it is null or empty.
CategoriesCacheKey(userId, type) ==
    GenerateCacheKey(userId, StrCategories,
                     IF type = Undefined \/ type = Some(<<>>) THEN Some(StrAll) ELSE type)

\* What a request carries besides its user: the type parameter of the list,
\* the name and type of a category, the id in the path, the categoryId of a
\* transaction, and whether the body passes the handler's own validation.
RequestData(type, name, id, categoryId, valid) ==
    [type |-> type, name |-> name, id |-> id, categoryId |-> categoryId,
     valid |-> valid]

NoReply == [got |-> FALSE, ok |-> FALSE, value |-> <<>>]

Reply(value) == [got |-> TRUE, ok |-> TRUE, value |-> value]

\* The store call rejected.
StoreError == [got |-> TRUE, ok |-> FALSE, value |-> <<>>]

\* No handler runs in the slot.
IdleRequest ==
    [handler |-> CategoriesGET, user |-> Undefined,
     data |-> RequestData(Undefined, Undefined, 0, Undefined, TRUE),
     pc |-> "idle", reply |-> NoReply, usage |-> 0, status |-> 0,
     trace |-> <<>>, body |-> <<>>]

\* The handler was invoked for the user (Undefined when the request carries
\* no valid token).
NewRequest(handler, user, data) ==
    [IdleRequest EXCEPT !.handler = handler, !.user = user, !.data = data,
                        !.pc = "start"]

\* The handler returns the response.
Returned(req, status, body) ==
    [req EXCEPT !.pc = "done", !.status = status, !.body = body,
                !.reply = NoReply]

\* The handler awaits the store call pc.
Awaiting(req, pc) == [req EXCEPT !.pc = pc, !.reply = NoReply]

\* The handler did what on its way.
Traced(req, what) == [req EXCEPT !.trace = Append(@, what)]

\* Whether the handler awaits its store read before the write.
CheckApplies(req) ==
    CASE req.handler.check = "none" -> FALSE
      [] req.handler.check = "duplicate" ->
            req.handler.kind = "create" \/ IsDefined(req.data.name)
      [] req.handler.check = "category" -> IsDefined(req.data.categoryId)
      [] req.handler.check = "usage" -> TRUE

\* The first store call after connectDB.
FirstCall(req) ==
    IF req.handler.kind = "list" THEN "find"
    ELSE IF CheckApplies(req) THEN "check" ELSE "write"

\* The category type the transaction handlers of a resource require.
CategoryTypeOf(resource) == IF resource = "expense" THEN StrExpense ELSE StrIncome

\* Model.countDocuments({ userId, categoryId: id }) on a transaction model.
CountUsage(st, resource, userId, id) ==
    Cardinality({i \in DOMAIN st.transactions :
                    /\ st.transactions[i].resource = resource
                    /\ st.transactions[i].userId = userId
                    /\ st.transactions[i].categoryId = Some(id)})

\* What the store answers to the read the request awaits.
ReadReply(st, req) ==
    LET userId == req.user[1]
        data == req.data
        h == req.handler
    IN
    CASE req.pc = "find" ->
            Reply(CategoryFind(st, CategoryFilter(userId, data.type)))
      [] req.pc = "check" /\ h.check = "duplicate" /\ h.kind = "create" ->
            Reply(\E i \in DOMAIN st.categories :
                    /\ st.categories[i].userId = userId
                    /\ Some(st.categories[i].name) = data.name
                    /\ Some(st.categories[i].type) = data.type)
      [] req.pc = "check" /\ h.check = "duplicate" /\ h.kind = "update" ->
            Reply(\E i \in DOMAIN st.categories :
                    /\ st.categories[i].id # data.id
                    /\ st.categories[i].userId = userId
                    /\ Some(st.categories[i].name) = data.name)
      [] req.pc = "check" /\ h.check = "category" ->
            Reply(\E i \in DOMAIN st.categories :
                    /\ Some(st.categories[i].id) = data.categoryId
                    /\ st.categories[i].userId = userId
                    /\ st.categories[i].type = CategoryTypeOf(h.resource))
      [] req.pc = "check" /\ h.check = "usage" ->
            Reply(CountUsage(st, "expense", userId, data.id))
      [] req.pc = "check2" ->
            Reply(CountUsage(st, "income", userId, data.id))
      [] req.pc = "populate" -> Reply(TRUE)

\* The collection the handler writes.
CollectionOf(st, h) ==
    IF h.resource = "category" THEN st.categories ELSE st.transactions

\* The store with the handler's collection replaced.
WithCollection(st, h, docs) ==
    IF h.resource = "category" THEN [st EXCEPT !.categories = docs]
    ELSE [st EXCEPT !.transactions = docs]

\* The document Model.create stores for the request.
CreatedDoc(st, req) ==
    IF req.handler.resource = "category"
    THEN [id |-> st.nextId, userId |-> req.user[1],
          name |-> req.data.name[1], type |-> req.data.type[1]]
    ELSE [id |-> st.nextId, resource |-> req.handler.resource,
          userId |-> req.user[1], categoryId |-> req.data.categoryId]

\* The document with the fields the request's body gives.
UpdatedDoc(doc, req) ==
    IF req.handler.resource = "category"
    THEN [doc EXCEPT !.name = IF IsDefined(req.data.name)
                               THEN req.data.name[1] ELSE @]
    ELSE [doc EXCEPT !.categoryId = IF IsDefined(req.data.categoryId)
                                     THEN req.data.categoryId ELSE @]

\* The document findOneAndUpdate / findOneAndDelete selects:
\* { _id: id, userId: user.userId } in the handler's collection.
Selected(st, req) ==
    LET docs == CollectionOf(st, req.handler) IN
    {i \in DOMAIN docs :
        /\ docs[i].id = req.data.id
        /\ docs[i].userId = req.user[1]
        /\ (req.handler.resource # "category"
              => docs[i].resource = req.handler.resource)}

\* The store after the write the request awaits, and the store's reply:
\* the document written, or none when no document was selected.
WriteResult(st, req) ==
    LET h == req.handler
        docs == CollectionOf(st, h)
        sel == Selected(st, req)
    IN
    CASE h.kind = "create" ->
            [st |-> [WithCollection(st, h, Append(docs, CreatedDoc(st, req)))
                        EXCEPT !.nextId = @ + 1],
             reply |-> Reply(Some(CreatedDoc(st, req)))]
      [] h.kind \in {"update", "delete"} /\ sel = {} ->
            [st |-> st, reply |-> Reply(Undefined)]
      [] h.kind = "update" /\ sel # {} ->
            LET i == CHOOSE j \in sel : TRUE IN
            [st |-> WithCollection(st, h,
                        [docs EXCEPT ![i] = UpdatedDoc(docs[i], req)]),
             reply |-> Reply(Some(UpdatedDoc(docs[i], req)))]
      [] h.kind = "delete" /\ sel # {} ->
            LET i == CHOOSE j \in sel : TRUE IN
            [st |-> WithCollection(st, h, RemoveAt(docs, i)),
             reply |-> Reply(Some(docs[i]))]

\* The callers: an authenticated user, or a request without a valid token.
Callers == {Some(u) : u \in UserIds} \cup {Undefined}

TypeParams == {Undefined, Some(StrExpense)}

\* The request bodies and parameters explored for a handler.
DataOf(h) ==
    CASE h.kind = "list" ->
            {RequestData(t, Undefined, 0, Undefined, TRUE) : t \in TypeParams}
      [] h.resource = "category" /\ h.kind = "create" ->
            {RequestData(Some(t), Some(CategoryNames[n]), 0, Undefined, TRUE) :
                t \in {StrExpense, StrIncome}, n \in DOMAIN CategoryNames}
            \cup {RequestData(Undefined, Undefined, 0, Undefined, FALSE)}
      [] h.resource = "category" /\ h.kind = "update" ->
            {RequestData(Undefined, n, id, Undefined, TRUE) :
                n \in {Undefined, Some(CategoryNames[2])}, id \in 1..MaxStoreIds}
      [] h.resource # "category" /\ h.kind = "create" ->
            {RequestData(Undefined, Undefined, 0, c, TRUE) :
                c \in {Undefined, Some(1)}}
            \cup {RequestData(Undefined, Undefined, 0, Undefined, FALSE)}
      [] h.resource # "category" /\ h.kind = "update" ->
            {RequestData(Undefined, Undefined, id, c, TRUE) :
                c \in {Undefined, Some(1)}, id \in 1..MaxStoreIds}
      [] h.kind = "delete" ->
            {RequestData(Undefined, Undefined, id, Undefined, TRUE) :
                id \in 1..MaxStoreIds}

\* What the route actions never change.
routeFrame == <<options, lru, last, given, touched, pending, collection,
                page, traversal, helper, db>>

\* The handler of slot r is invoked and runs to its first await or return:
\* authentication, then for the list the cache lookup, for a write the
\* validation of the body.  Invocations are explored up to max of them.
Invoke(r, handlers, max) ==
    /\ calls < max
    /\ requests[r].pc \in {"idle", "done"}
    /\ \E h \in handlers, user \in Callers :
        \E data \in DataOf(h) :
            LET req == NewRequest(h, user, data)
                got == Get(categoriesCache,
                           CategoriesCacheKey(user[1], data.type), now)
            IN
            IF user = Undefined
            THEN /\ requests' = [requests EXCEPT ![r] = Returned(req, 401, <<>>)]
                 /\ UNCHANGED registry
            ELSE IF h.kind = "list"
            THEN /\ categoriesCache' = got.c
                 /\ UNCHANGED <<userCache, aggregationCache, generalCache>>
                 /\ requests' = [requests EXCEPT ![r] =
                        IF IsDefined(got.ret)
                        THEN Returned(Traced(req, "cacheHit"), 200, got.ret[1])
                        ELSE Awaiting(req, "connect")]
            ELSE /\ requests' = [requests EXCEPT ![r] =
                        IF data.valid THEN Awaiting(req, "connect")
                        ELSE Returned(req, 400, <<>>)]
                 /\ UNCHANGED registry
    /\ calls' = calls + 1
    /\ UNCHANGED <<now, store, routeFrame>>

\* connectDB resolves, and the handler issues its first store call, or
\* connectDB rejects and the handler answers 500.
Connected(r) ==
    /\ requests[r].pc = "connect"
    /\ \E ok \in BOOLEAN :
        requests' = [requests EXCEPT ![r] =
            IF ok THEN Awaiting(@, FirstCall(@)) ELSE Returned(@, 500, <<>>)]
    /\ UNCHANGED <<now, calls, store, registry, routeFrame>>

\* The store executes the call the handler of slot r awaits, or rejects it.
StoreExecutes(r) ==
    LET req == requests[r] IN
    /\ req.pc \in {"find", "check", "check2", "write", "populate"}
    /\ ~req.reply.got
    /\ \/ /\ req.pc # "write"
          /\ requests' = [requests EXCEPT ![r] =
                [(IF req.pc = "find" THEN Traced(@, "find") ELSE @)
                    EXCEPT !.reply = ReadReply(store, req)]]
          /\ UNCHANGED store
       \/ /\ req.pc = "write"
          /\ req.handler.kind = "create" => store.nextId <= MaxStoreIds
          /\ LET w == WriteResult(store, req) IN
             /\ store' = w.st
             /\ requests' = [requests EXCEPT ![r] =
                    IF IsDefined(w.reply.value)
                    THEN [Traced(@, "write") EXCEPT !.reply = w.reply]
                    ELSE [@ EXCEPT !.reply = w.reply]]
       \/ /\ requests' = [requests EXCEPT ![r].reply = StoreError]
          /\ UNCHANGED store
    /\ UNCHANGED <<now, calls, registry, routeFrame>>

\* A handler that answers with success without the invalidation.
FinishedWithoutInvalidation(req, inv) ==
    Returned(req, req.handler.success, <<>>)

\* The handler of a write after its last await: the invalidation, when the
\* handler has one, and the success response.  A throw of
\* invalidateUserCache lands in the handler's catch, which answers 500.
Finished(req, inv) ==
    IF ~req.handler.invalidates THEN Returned(req, req.handler.success, <<>>)
    ELSE IF inv.threw THEN Returned(req, 500, <<>>)
    ELSE Returned(Traced(req, "invalidate"), req.handler.success, <<>>)

\* The request of slot r after it resumed with the store's reply, up to its
\* next await or its return.
Resumed(req, inv) ==
    LET value == req.reply.value
        h == req.handler
    IN
    CASE ~req.reply.ok -> Returned(req, 500, <<>>)
      [] req.reply.ok /\ req.pc = "find" ->
            Returned(Traced(req, "cacheSet"), 200, value)
      [] req.reply.ok /\ req.pc = "check" /\ h.check = "duplicate" ->
            IF value THEN Returned(req, 409, <<>>) ELSE Awaiting(req, "write")
      [] req.reply.ok /\ req.pc = "check" /\ h.check = "category" ->
            IF value THEN Awaiting(req, "write") ELSE Returned(req, 400, <<>>)
      [] req.reply.ok /\ req.pc = "check" /\ h.check = "usage" ->
            [Awaiting(req, "check2") EXCEPT !.usage = value]
      [] req.reply.ok /\ req.pc = "check2" ->
            IF req.usage + value > 0 THEN Returned(req, 409, <<>>)
            ELSE Awaiting(req, "write")
      [] req.reply.ok /\ req.pc = "write" ->
            IF value = Undefined THEN Returned(req, 404, <<>>)
            ELSE IF h.populates THEN Awaiting(req, "populate")
            ELSE Finished(req, inv)
      [] req.reply.ok /\ req.pc = "populate" -> Finished(req, inv)

\* The handler of slot r resumes with the reply of the store call it
\* awaited: the list stores what it found in categoriesCache and answers; a
\* write goes on to its next store call or returns.
Resume(r) ==
    LET req == requests[r]
        inv == InvalidateUserCache(Registry, req.user[1])
        next == Resumed(req, inv)
    IN
    /\ req.reply.got
    /\ requests' = [requests EXCEPT ![r] = next]
    /\ IF next.trace = Append(req.trace, "cacheSet")
       THEN /\ categoriesCache' =
                    Set(categoriesCache,
                        CategoriesCacheKey(req.user[1], req.data.type),
                        req.reply.value, Some(CategoriesTTLMillis), now)
            /\ UNCHANGED <<userCache, aggregationCache, generalCache>>
       ELSE IF next.trace = Append(req.trace, "invalidate")
       THEN RegistryBecomes(inv.reg)
       ELSE UNCHANGED registry
    /\ UNCHANGED <<now, calls, store, routeFrame>>

\* Time passes: a millisecond or the ttl of the categories list, each once,
\* so that an entry is met younger than its ttl, at its ttl and past it.
RouteTick ==
    /\ \E d \in {1, CategoriesTTLMillis} :
        /\ d = 1 => now % CategoriesTTLMillis = 0
        /\ d = CategoriesTTLMillis => now < CategoriesTTLMillis
        /\ now' = now + d
    /\ UNCHANGED <<calls, requests, store, registry, routeFrame>>

\* The module's instances as loaded, an empty store and idle slots.
InitRoutes(slots) ==
    /\ options = [maxSize |-> 0, defaultTTL |-> 0]
    /\ lru = NewLRUCache(options.maxSize, options.defaultTTL)
    /\ now = 0
    /\ last = NoCall
    /\ calls = 0
    /\ given = <<>>
    /\ touched = <<>>
    /\ RegistryInit
    /\ requests = [r \in slots |-> IdleRequest]
    /\ store = EmptyStore
    /\ pending = <<>>
    /\ collection = <<>>
    /\ page = <<>>
    /\ traversal = <<>>
    /\ helper = <<>>
    /\ db = <<>>

\* Every handler that reads or writes categories, expenses or incomes.
RouteHandlers == MutatingHandlers \cup {CategoriesGET}

InitSequential == InitRoutes({1})

NextRoutes ==
    \/ Invoke(1, RouteHandlers, MaxRequests)
    \/ Connected(1)
    \/ StoreExecutes(1)
    \/ Resume(1)

SpecRoutes == InitSequential /\ [][NextRoutes]_vars

\* SpecCategories: the list and the create handler of /api/categories, one
\* request at a time, and the passing of time.
CategoryHandlers == {CategoriesGET, CategoriesPOST}

NextCategories ==
    \/ Invoke(1, CategoryHandlers, MaxListRequests)
    \/ Connected(1)
    \/ StoreExecutes(1)
    \/ Resume(1)
    \/ RouteTick

SpecCategories == InitSequential /\ [][NextCategories]_vars

\* ------------------------------------------------------------------------
\* Properties of the route handlers (SpecRoutes, SpecCategories)
\* ------------------------------------------------------------------------

\* The request came back with a success status.
Succeeded(req) == req.pc = "done" /\ req.status \in {200, 201}

\* C12: every handler that creates, updates or deletes a category, an
\* expense or an income and answers with success has called
\* invalidateUserCache for its user after the store write.
C12_MutationsInvalidate ==
    \A r \in DOMAIN requests :
        (requests[r].handler \in MutatingHandlers /\ Succeeded(requests[r]))
            => \E i, j \in DOMAIN requests[r].trace :
                  /\ i < j
                  /\ requests[r].trace[i] = "write"
                  /\ requests[r].trace[j] = "invalidate"

\* 'user:<userId>:categories:expense'
ExpenseListKey(userId) ==
    StrUser \o <<":">> \o userId \o <<":">> \o StrCategories \o <<":">> \o StrExpense

\* The step invokes a handler in slot r.
Invokes(r) == calls' = calls + 1 /\ requests'[r].pc # "idle"

KeyParts ==
    {<<"1">>, <<"2">>, <<"1", ":", "2">>, <<"2", ":", "1">>, <<"1", ":">>}

KeySuffixes == {Undefined, Some(<<>>)} \cup {Some(x) : x \in KeyParts}

InitKeys ==
    /\ options = [maxSize |-> 0, defaultTTL |-> 0]
    /\ lru = NewLRUCache(options.maxSize, options.defaultTTL)
    /\ now = 0
    /\ last = NoCall
    /\ calls = 0
    /\ given = <<>>
    /\ touched = <<>>
    /\ RegistryInit
    /\ AppIdle

GenerateCacheKeyOp ==
    /\ \E userId \in KeyParts, resource \in KeyParts, suffix \in KeySuffixes :
        last' = Call("generateCacheKey", <<userId, resource, suffix>>,
                     GenerateCacheKey(userId, resource, suffix))
    /\ UNCHANGED <<options, lru, now, calls, given, touched, registry, appVars>>

NextKeys == GenerateCacheKeyOp

SpecKeys == InitKeys /\ [][NextKeys]_vars

\* C14: two calls of generateCacheKey with different triples (userId,
\* resource, suffix), an absent suffix differing from every present one,
\* return different keys, and two calls with the same triple the same key.
C14_GenerateCacheKeyInjective ==
    [][(last.op = "generateCacheKey" /\ last'.op = "generateCacheKey")
          => /\ last.key # last'.key => last.ret # last'.ret
             /\ last.key = last'.key => last.ret = last'.ret]_vars

\* ------------------------------------------------------------------------
\* SpecGetOrSet: getOrSet calls on one instance.  A call that misses is
\* suspended at its await of fallback(); other calls and the clock run
\* before the fallback settles and the call resumes.
\* ------------------------------------------------------------------------

GetOrSetTTLs == TTLArgs \cup {Undefined}

\* A getOrSet call: its arguments, where it stands, how often it invoked
\* its fallback, what the fallback produced and what the call returned.
GetOrSetCall(key, ttl, pc, invoked, ret) ==
    [key |-> key, ttl |-> ttl, pc |-> pc, invoked |-> invoked,
     produced |-> Undefined, ret |-> ret]

\* getOrSet(key, fallback, ttl) up to its return on a hit or, on a miss,
\* to its await of the fallback it has invoked.
GetOrSetBegin ==
    /\ Len(pending) < MaxPending
    /\ \E key \in Keys, ttl \in GetOrSetTTLs :
        LET r == Get(lru, key, now) IN
        /\ lru' = r.c
        /\ pending' = Append(pending,
                IF IsDefined(r.ret)
                THEN GetOrSetCall(key, ttl, "returned", 0, r.ret)
                ELSE GetOrSetCall(key, ttl, "awaiting", 1, Undefined))
        /\ given' = GivenAfter(r.c)
        /\ touched' = IF IsDefined(r.ret)
                      THEN Append(SelectSeq(touched, LAMBDA k : k # key), key)
                      ELSE TouchedAfter(r.c)
    /\ UNCHANGED <<options, now, last, calls, registry, requests, store,
                   collection, page, traversal, helper, db>>

\* FallbackResolves where a call whose key was stored meanwhile keeps the
\* stored entry instead of setting its own value.
FallbackResolvesKeepsFirst ==
    \E i \in DOMAIN pending :
    /\ pending[i].pc = "awaiting"
    /\ \E value \in Values :
        LET call == pending[i]
            c2 == IF call.key \in KeysOf(lru) THEN lru
                  ELSE Set(lru, call.key, value, call.ttl, now)
        IN
        /\ lru' = c2
        /\ pending' = [pending EXCEPT ![i] =
                [@ EXCEPT !.pc = "returned", !.produced = Some(value),
                          !.ret = Some(value)]]
        /\ given' = [k \in KeysOf(c2) |->
                        IF k = call.key /\ call.key \notin KeysOf(lru)
                        THEN [ttl |-> call.ttl, at |-> now]
                        ELSE given[k]]
        /\ touched' = IF call.key \in KeysOf(lru) THEN touched
                      ELSE Append(SelectSeq(touched,
                                     LAMBDA k : k \in KeysOf(c2) /\ k # call.key),
                                  call.key)
    /\ UNCHANGED <<options, now, last, calls, registry, requests, store,
                   collection, page, traversal, helper, db>>

\* The fallback of a suspended call i resolves: the call sets the value and returns it.
FallbackResolves ==
    \E i \in DOMAIN pending :
    /\ pending[i].pc = "awaiting"
    /\ \E value \in Values :
        LET call == pending[i]
            c2 == Set(lru, call.key, value, call.ttl, now)
        IN
        /\ lru' = c2
        /\ pending' = [pending EXCEPT ![i] =
                [@ EXCEPT !.pc = "returned", !.produced = Some(value),
                          !.ret = Some(value)]]
        /\ given' = [k \in KeysOf(c2) |->
                        IF k = call.key THEN [ttl |-> call.ttl, at |-> now]
                        ELSE given[k]]
        /\ touched' = Append(SelectSeq(touched,
                                LAMBDA k : k \in KeysOf(c2) /\ k # call.key),
                             call.key)
    /\ UNCHANGED <<options, now, last, calls, registry, requests, store,
                   collection, page, traversal, helper, db>>

\* The fallback of a suspended call i rejects: the call rejects and sets nothing.
FallbackRejects ==
    \E i \in DOMAIN pending :
    /\ pending[i].pc = "awaiting"
    /\ pending' = [pending EXCEPT ![i].pc = "threw"]
    /\ UNCHANGED <<options, lru, now, last, calls, given, touched, registry,
                   requests, store, collection, page, traversal, helper, db>>

NextGetOrSet ==
    \/ GetOrSetBegin
    \/ FallbackResolves
    \/ FallbackRejects
    \/ Tick

SpecGetOrSet == Init /\ [][NextGetOrSet]_vars

\* C15: a getOrSet call on a key that holds an entry younger than its ttl
\* invokes its fallback zero times and returns the held value; on a key that
\* holds no entry, or one older than its ttl, it invokes the fallback once,
\* and when the fallback has produced a value the key holds that value with
\* the ttl the call was given (the instance's default when none was given),
\* and the call returns that value.
C15_GetOrSetProducesOnce ==
    [][/\ Len(pending') = Len(pending) + 1 =>
            LET call == pending'[Len(pending')]
                held == call.key \in KeysOf(lru)
                age == now - EntryOf(lru, call.key).timestamp
            IN
            /\ (held /\ age < EntryOf(lru, call.key).ttl)
                  => /\ call.invoked = 0
                     /\ call.pc = "returned"
                     /\ call.ret = Some(EntryOf(lru, call.key).value)
            /\ (~held \/ age > EntryOf(lru, call.key).ttl)
                  => call.invoked = 1 /\ call.pc = "awaiting"
       /\ \A i \in DOMAIN pending :
            (pending[i].pc = "awaiting" /\ pending'[i].pc = "returned")
                => LET call == pending'[i] IN
                   /\ call.invoked = 1
                   /\ IsDefined(call.produced)
                   /\ call.ret = call.produced
                   /\ call.key \in KeysOf(lru')
                   /\ Some(EntryOf(lru', call.key).value) = call.produced
                   /\ EntryOf(lru', call.key).ttl =
                        IF IsDefined(call.ttl) THEN call.ttl[1]
                        ELSE lru.defaultTTL]_vars

\* ------------------------------------------------------------------------
\* Properties of has (Spec)
\* ------------------------------------------------------------------------

\* The entries of c that have not expired at clock time t, in c's order.
Unexpired(c, t) == SelectSeq(c.cache, LAMBDA e : ~(t - e.timestamp > e.ttl))

\* C16: has(key) returns true exactly when get(key) at the same clock time
\* would return a value, and it leaves the hit, miss and eviction counters
\* and the unexpired entries and their order as they were.
C16_HasAgreesWithGetAndCountsNothing ==
    [][Did("has")
          => /\ last'.ret = <<IsDefined(Get(lru, last'.key, now).ret)>>
             /\ lru'.stats.hits = lru.stats.hits
             /\ lru'.stats.misses = lru.stats.misses
             /\ lru'.stats.evictions = lru.stats.evictions
             /\ Unexpired(lru', now) = Unexpired(lru, now)]_vars

\* has found one of the two keys the instance held expired and removed it;
\* get would have returned nothing for it.
C16_Witness ==
    /\ calls = 1
    /\ last.op = "has"
    /\ last.ret = <<FALSE>>
    /\ lru.stats.size = 2
    /\ Len(lru.cache) = 1
    /\ lru.stats.evictions = 0

\* ------------------------------------------------------------------------
\* The mongoose queries the pagination helpers build and run.  A model is
\* its documents, in insertion order, and the strictQuery option it was
\* compiled with (true by default in mongoose 6, false from mongoose 7 on).
\* ------------------------------------------------------------------------

\* The paths of the schema.
SchemaPaths == {"userId", "createdAt"}

\* Model.find(conditions)
Find(conditions) ==
    [conditions |-> conditions, path |-> Undefined, sort |-> Undefined,
     skip |-> 0, limit |-> Undefined]

\* query.where(path): the path the next chained condition applies to.
Where(q, path) == [q EXCEPT !.path = Some(path)]

\* query.where(path, val): sets the path and the condition { [path]: val }.
WhereEquals(q, path, val) ==
    [q EXCEPT !.path = Some(path),
              !.conditions = [p \in DOMAIN q.conditions \cup {path} |->
                                IF p = path THEN val ELSE q.conditions[p]]]

\* query.sort({ [sortBy]: direction }), direction 1 or -1
Sort(q, direction) == [q EXCEPT !.sort = Some(direction)]

\* query.skip(n)
Skip(q, n) == [q EXCEPT !.skip = n]

\* query.limit(n)
Limit(q, n) == [q EXCEPT !.limit = Some(n)]

\* query.getFilter()
GetFilter(q) == q.conditions

\* The conditions the server receives: with strictQuery, mongoose strips the
\* conditions on paths that are not in the schema.
CastFilter(model, conditions) ==
    IF model.strictQuery
    THEN [p \in DOMAIN conditions \cap SchemaPaths |-> conditions[p]]
    ELSE conditions

\* The server rejects a filter with a top-level key that is an operator,
\* such as { $lt: value }: "unknown top level operator".
ServerRejects(filter) == DOMAIN filter \ SchemaPaths # {}

\* The documents of the model that match the filter, in insertion order.
MatchingDocs(model, filter) ==
    SelectSeq(model.docs,
              LAMBDA d : \A p \in DOMAIN filter \cap SchemaPaths : d[p] = filter[p])

\* doc may stand before other in a sort on createdAt in the direction.
MayPrecede(doc, other, direction) ==
    IF direction = 1 THEN doc.createdAt <= other.createdAt
    ELSE doc.createdAt >= other.createdAt

\* The orders in which the server may return the documents of a set sorted
\* on createdAt: documents with equal values come in any order.
RECURSIVE SortedOrders(_, _)
SortedOrders(docs, direction) ==
    IF docs = {} THEN {<<>>}
    ELSE UNION {{<<d>> \o rest : rest \in SortedOrders(docs \ {d}, direction)} :
                    d \in {x \in docs : \A y \in docs : MayPrecede(x, y, direction)}}

\* The elements of a sequence.
Range(seq) == {seq[i] : i \in DOMAIN seq}

\* The first n elements of seq from position skip + 1 on.
Window(seq, skip, n) ==
    SubSeq(seq, skip + 1, IF skip + n < Len(seq) THEN skip + n ELSE Len(seq))

\* The results query.exec() may resolve with, and whether it rejects: the
\* filter is cast and sent, the matches are sorted, skipped and limited.
Exec(model, q) ==
    LET filter == CastFilter(model, q.conditions)
        matches == MatchingDocs(model, filter)
        orders == IF IsDefined(q.sort) THEN SortedOrders(Range(matches), q.sort[1])
                  ELSE {matches}
    IN
    IF ServerRejects(filter) THEN [threw |-> TRUE, results |-> {}]
    ELSE [threw |-> FALSE,
          results |-> {Window(s, q.skip,
                              IF IsDefined(q.limit) THEN q.limit[1] ELSE Len(s)) :
                        s \in orders}]

\* Model.countDocuments(filter)
CountDocuments(model, conditions) ==
    LET filter == CastFilter(model, conditions) IN
    IF ServerRejects(filter) THEN [threw |-> TRUE, count |-> 0]
    ELSE [threw |-> FALSE, count |-> Len(MatchingDocs(model, filter))]

\* ------------------------------------------------------------------------
\* SpecPaginate: paginate over the documents of one user in a collection
\* that does not change during the call.
\* ------------------------------------------------------------------------

Max(a, b) == IF a > b THEN a ELSE b

Min(a, b) == IF a < b THEN a ELSE b

\* Math.ceil(n / d) for n >= 0 and d > 0
Ceil(n, d) == IF n % d = 0 THEN n \div d ELSE (n \div d) + 1

\* The value of an option, or its default when the option is undefined.
OrDefault(option, default) == IF IsDefined(option) THEN option[1] ELSE default

\* sortOrder === "desc" ? -1 : 1
Direction(sortOrder) == IF sortOrder = "desc" THEN -1 ELSE 1

\* validPage
ValidPage(pageArg) == Max(1, pageArg)

\* validLimit without the cap of 100 items per page.
ValidLimitUncapped(limit) == Max(1, limit)

\* validLimit
ValidLimit(limit) == Min(Max(1, limit), 100)

\* skip one page too far.
SkipOfNextPage(validPage, validLimit) == validPage * validLimit

\* skip
SkipOf(validPage, validLimit) == (validPage - 1) * validLimit

\* The query whose promise paginate awaits for the data.
PaginateQuery(query, opts) ==
    LET validPage == ValidPage(OrDefault(opts.page, 1))
        validLimit == ValidLimit(OrDefault(opts.limit, 20))
    IN
    Limit(Skip(Sort(query, Direction(OrDefault(opts.sortOrder, "desc"))),
               SkipOf(validPage, validLimit)),
          validLimit)

\* What paginate returns for the data and the count the store answered.
PaginationResult(opts, data, total) ==
    LET validPage == ValidPage(OrDefault(opts.page, 1))
        validLimit == ValidLimit(OrDefault(opts.limit, 20))
        totalPages == Ceil(total, validLimit)
    IN
    [op |-> "paginate", options |-> opts, threw |-> FALSE, data |-> data,
     pagination |-> [page |-> validPage, limit |-> validLimit, total |-> total,
                     totalPages |-> totalPages,
                     hasNextPage |-> validPage < totalPages,
                     hasPrevPage |-> validPage > 1]]

\* paginate rethrows the error of a store call that failed.
PaginationError(opts) ==
    [op |-> "paginate", options |-> opts, threw |-> TRUE, data |-> <<>>,
     pagination |-> <<>>]

PageArgs == {Undefined} \cup {Some(n) : n \in -1..3}

LimitArgs == {Undefined} \cup {Some(n) : n \in {-1, 0, 1, 2, 100, 101}}

SortOrders == {Undefined, Some("asc"), Some("desc")}

PaginationOptions == [page : PageArgs, limit : LimitArgs, sortOrder : SortOrders]

PageUsers == {"u1", "u2"}

SortValues == {1, 2}

\* The documents a collection may hold: the i-th inserted has _id i.
Documents(n) ==
    {docs \in [1..n -> [id : 1..n, userId : PageUsers, createdAt : SortValues]] :
        \A i \in 1..n : docs[i].id = i}

\* The models explored: up to MaxDocs documents, either strictQuery option.
Models ==
    {[docs |-> docs, strictQuery |-> strict] :
        docs \in UNION {Documents(n) : n \in 0..MaxDocs}, strict \in BOOLEAN}

\* What the pagination actions never change.
queryFrame == <<options, lru, now, last, calls, given, touched, registry,
                requests, store, pending, helper, db>>

InitPaginate ==
    /\ options = [maxSize |-> 0, defaultTTL |-> 0]
    /\ lru = NewLRUCache(options.maxSize, options.defaultTTL)
    /\ now = 0
    /\ last = NoCall
    /\ calls = 0
    /\ given = <<>>
    /\ touched = <<>>
    /\ RegistryInit
    /\ requests = <<>>
    /\ store = <<>>
    /\ pending = <<>>
    /\ collection \in Models
    /\ page = <<>>
    /\ traversal = <<>>
    /\ helper = <<>>
    /\ db = <<>>

\* paginate(Model.find({ userId: "u1" }), options), called once on the
\* model, with both store calls answering.
PaginateOp ==
    /\ page = <<>>
    /\ \E opts \in PaginationOptions :
        LET query == Find([p \in {"userId"} |-> "u1"])
            exec == Exec(collection, PaginateQuery(query, opts))
            count == CountDocuments(collection, GetFilter(query))
        IN
        /\ ~exec.threw /\ ~count.threw
        /\ \E data \in exec.results :
              page' = PaginationResult(opts, data, count.count)
    /\ UNCHANGED <<collection, traversal, queryFrame>>

\* paginate with a store call that rejects.
PaginateFailsOp ==
    /\ page = <<>>
    /\ \E opts \in PaginationOptions : page' = PaginationError(opts)
    /\ UNCHANGED <<collection, traversal, queryFrame>>

NextPaginate ==
    \/ PaginateOp
    \/ PaginateFailsOp

SpecPaginate == InitPaginate /\ [][NextPaginate]_vars

\* ------------------------------------------------------------------------
\* Properties of paginate (SpecPaginate)
\* ------------------------------------------------------------------------

\* paginate returned an envelope.
Paginated == page # <<>> /\ ~page.threw

\* The least number of pages of size pages that hold total documents.
PagesFor(total, size) ==
    CHOOSE k \in 0..total : k * size >= total /\ (k > 0 => (k - 1) * size < total)

\* C17: for every page and limit, zero and negative ones included, paginate
\* raises nothing of its own (before the call, the store answering, every
\* options have a result) and returns page' = max(1, page),
\* limit' = min(max(1, limit), 100), totalPages = ceil(total / limit') (0 when
\* total is 0), hasNextPage = page' < totalPages and hasPrevPage = page' > 1.
C17_PaginateClampsAndCounts ==
    /\ page = <<>> =>
          \A opts \in PaginationOptions :
             LET exec == Exec(collection,
                              PaginateQuery(Find([p \in {"userId"} |-> "u1"]), opts))
             IN ~exec.threw /\ exec.results # {}
    /\ (Paginated /\ IsDefined(page.options.page) /\ IsDefined(page.options.limit))
          => LET p == page.options.page[1]
                 l == page.options.limit[1]
                 pageP == IF p < 1 THEN 1 ELSE p
                 limitP == IF l < 1 THEN 1 ELSE IF l > 100 THEN 100 ELSE l
                 total == page.pagination.total
             IN
             /\ total >= 0
             /\ page.pagination.page = pageP
             /\ page.pagination.limit = limitP
             /\ page.pagination.totalPages = PagesFor(total, limitP)
             /\ (total = 0 => page.pagination.totalPages = 0)
             /\ page.pagination.hasNextPage = (pageP < page.pagination.totalPages)
             /\ page.pagination.hasPrevPage = (pageP > 1)

\* paginate was called with page 0 and limit 101 on three documents.
C17_Witness ==
    /\ Paginated
    /\ page.options.page = Some(0)
    /\ page.options.limit = Some(101)
    /\ page.pagination.page = 1
    /\ page.pagination.limit = 100
    /\ page.pagination.total = 3
    /\ page.pagination.totalPages = 1

\* The documents of the collection the filter { userId: "u1" } matches.
MatchesOfFilter == {collection.docs[i] : i \in {j \in DOMAIN collection.docs :
                                                collection.docs[j].userId = "u1"}}

\* a comes strictly before b in the sort order the call asked for.
StrictlyBefore(a, b) ==
    IF page.options.sortOrder = Some("asc") THEN a.createdAt < b.createdAt
    ELSE a.createdAt > b.createdAt

\* C18: with no write during the call, the data paginate returns are the
\* documents at positions [skip, skip + limit') of the filter's matches in the
\* requested sort order, skip = (page' - 1) * limit': as many as that range
\* holds, none twice, each at a position its sort value allows; the data are
\* empty, without error, when skip >= total; total is the number of matches.
C18_PaginateReturnsThePage ==
    Paginated =>
        LET skip == (page.pagination.page - 1) * page.pagination.limit
            total == Cardinality(MatchesOfFilter)
            rest == IF total > skip THEN total - skip ELSE 0
            data == page.data
        IN
        /\ page.pagination.total = total
        /\ Len(data) = (IF rest < page.pagination.limit THEN rest
                        ELSE page.pagination.limit)
        /\ (skip >= total => data = <<>>)
        /\ \A i \in DOMAIN data : data[i] \in MatchesOfFilter
        /\ \A i, j \in DOMAIN data : i # j => data[i].id # data[j].id
        /\ \A i, j \in DOMAIN data : i < j => ~StrictlyBefore(data[j], data[i])
        /\ \A i \in DOMAIN data :
              /\ Cardinality({m \in MatchesOfFilter : StrictlyBefore(m, data[i])})
                    <= skip + i - 1
              /\ Cardinality({m \in MatchesOfFilter : ~StrictlyBefore(data[i], m)})
                    >= skip + i

\* Page 2 with limit 2 of three matching documents has one document, the
\* last of the ascending order.
C18_Witness ==
    /\ Paginated
    /\ page.options.page = Some(2)
    /\ page.options.limit = Some(2)
    /\ page.options.sortOrder = Some("asc")
    /\ page.pagination.total = 3
    /\ Len(page.data) = 1
    /\ page.data[1].createdAt = 2
    /\ \E m \in MatchesOfFilter : m.createdAt = 1

\* Page 3 with limit 2 of three matching documents is empty.
C18_WitnessPastTheEnd ==
    /\ Paginated
    /\ page.options.page = Some(3)
    /\ page.options.limit = Some(2)
    /\ page.pagination.total = 3
    /\ page.data = <<>>

\* ------------------------------------------------------------------------
\* SpecCursor: a traversal with cursorPaginate over the documents of one
\* user in a collection that does not change: the first call has no cursor,
\* each later call has the nextCursor of the page before.
\* ------------------------------------------------------------------------

\* The base64 alphabet.
Base64Alphabet ==
    <<"A", "B", "C", "D", "E", "F", "G", "H", "I", "J", "K", "L", "M", "N", "O", "P",
      "Q", "R", "S", "T", "U", "V", "W", "X", "Y", "Z", "a", "b", "c", "d", "e", "f",
      "g", "h", "i", "j", "k", "l", "m", "n", "o", "p", "q", "r", "s", "t", "u", "v",
      "w", "x", "y", "z", "0", "1", "2", "3", "4", "5", "6", "7", "8", "9", "+", "/">>

\* The position, from 0, of a character in the base64 alphabet.
Base64Index(c) == (CHOOSE i \in 1..64 : Base64Alphabet[i] = c) - 1

\* Buffer.from(text).toString("base64"), the text given as its bytes.
RECURSIVE ToBase64(_)
ToBase64(bytes) ==
    IF Len(bytes) = 0 THEN <<>>
    ELSE IF Len(bytes) = 1
    THEN <<Base64Alphabet[(bytes[1] \div 4) + 1],
           Base64Alphabet[((bytes[1] % 4) * 16) + 1], "=", "=">>
    ELSE IF Len(bytes) = 2
    THEN <<Base64Alphabet[(bytes[1] \div 4) + 1],
           Base64Alphabet[((bytes[1] % 4) * 16) + (bytes[2] \div 16) + 1],
           Base64Alphabet[((bytes[2] % 16) * 4) + 1], "=">>
    ELSE <<Base64Alphabet[(bytes[1] \div 4) + 1],
           Base64Alphabet[((bytes[1] % 4) * 16) + (bytes[2] \div 16) + 1],
           Base64Alphabet[((bytes[2] % 16) * 4) + (bytes[3] \div 64) + 1],
           Base64Alphabet[(bytes[3] % 64) + 1]>>
         \o ToBase64(SubSeq(bytes, 4, Len(bytes)))

\* Buffer.from(text, "base64"), as bytes.
RECURSIVE FromBase64(_)
FromBase64(text) ==
    IF Len(text) < 4 THEN <<>>
    ELSE LET a == Base64Index(text[1])
             b == Base64Index(text[2])
             rest == FromBase64(SubSeq(text, 5, Len(text)))
         IN
         IF text[3] = "=" THEN <<(a * 4) + (b \div 16)>>
         ELSE LET c == Base64Index(text[3]) IN
              IF text[4] = "="
              THEN <<(a * 4) + (b \div 16), ((b % 16) * 16) + (c \div 4)>>
              ELSE <<(a * 4) + (b \div 16), ((b % 16) * 16) + (c \div 4),
                     ((c % 4) * 64) + Base64Index(text[4])>> \o rest

\* The character code of the digit 0.
CharCodeOfZero == 48

\* JSON.stringify(value) of a natural number, as the bytes of its digits.
RECURSIVE JSONStringify(_)
JSONStringify(value) ==
    IF value < 10 THEN <<CharCodeOfZero + value>>
    ELSE JSONStringify(value \div 10) \o <<CharCodeOfZero + (value % 10)>>

\* JSON.parse(text) of the digits of a natural number.
RECURSIVE JSONParse(_)
JSONParse(bytes) ==
    IF Len(bytes) = 0 THEN 0
    ELSE (JSONParse(SubSeq(bytes, 1, Len(bytes) - 1)) * 10)
         + (bytes[Len(bytes)] - CharCodeOfZero)

\* encodeCursor
EncodeCursor(value) == ToBase64(JSONStringify(value))

\* decodeCursor
DecodeCursor(cursor) == JSONParse(FromBase64(cursor))

\* if (cursor): a cursor that is given and is not the empty string.
Truthy(cursor) == IsDefined(cursor) /\ cursor[1] # <<>>

\* The query cursorPaginate executes: the cursor filter, the sort and the
\* limit of one more than the page.
CursorQuery(query, opts) ==
    LET sortOrder == OrDefault(opts.sortOrder, "desc")
        validLimit == ValidLimit(OrDefault(opts.limit, 20))
        operator == IF sortOrder = "desc" THEN "$lt" ELSE "$gt"
        filtered == IF Truthy(opts.cursor)
                    THEN WhereEquals(Where(query, "createdAt"), operator,
                                     DecodeCursor(opts.cursor[1]))
                    ELSE query
    IN
    Limit(Sort(filtered, Direction(sortOrder)), validLimit + 1)

\* What cursorPaginate returns for the data the store answered.
CursorPaginationResult(opts, data) ==
    LET validLimit == ValidLimit(OrDefault(opts.limit, 20))
        hasMore == Len(data) > validLimit
        results == IF hasMore THEN SubSeq(data, 1, validLimit) ELSE data
    IN
    [data |-> results,
     nextCursor |-> IF hasMore /\ Len(results) > 0
                    THEN Some(EncodeCursor(results[Len(results)].createdAt))
                    ELSE Undefined,
     hasMore |-> hasMore]

CursorLimits == {Undefined, Some(1), Some(2)}

\* The options of a traversal, but for the cursor.
TraversalOptions == [limit : CursorLimits, sortOrder : SortOrders]

\* The cursor of the next call of the traversal: none on the first call.
NextCursorOf(t) ==
    IF t.pages = <<>> THEN Undefined ELSE t.pages[Len(t.pages)].nextCursor

\* The traversal goes on: nothing was thrown, and the last page, if any, came
\* with a cursor.
MayContinue(t) ==
    /\ ~t.threw
    /\ Len(t.pages) < MaxPages
    /\ (t.pages = <<>> \/ IsDefined(NextCursorOf(t)))

\* The options of the next call of the traversal.
CursorOptionsOf(t) ==
    [cursor |-> NextCursorOf(t), limit |-> t.options.limit,
     sortOrder |-> t.options.sortOrder]

\* What the traversal never changes.
cursorFrame == <<collection, page, queryFrame>>

InitCursor ==
    /\ options = [maxSize |-> 0, defaultTTL |-> 0]
    /\ lru = NewLRUCache(options.maxSize, options.defaultTTL)
    /\ now = 0
    /\ last = NoCall
    /\ calls = 0
    /\ given = <<>>
    /\ touched = <<>>
    /\ RegistryInit
    /\ requests = <<>>
    /\ store = <<>>
    /\ pending = <<>>
    /\ collection \in Models
    /\ page = <<>>
    /\ traversal \in {[options |-> o, pages |-> <<>>, threw |-> FALSE] :
                        o \in TraversalOptions}
    /\ helper = <<>>
    /\ db = <<>>

\* cursorPaginate(Model.find({ userId: "u1" }), { cursor, limit, sortOrder })
\* with the store answering the query.
CursorPaginateOp ==
    /\ MayContinue(traversal)
    /\ LET opts == CursorOptionsOf(traversal)
           exec == Exec(collection,
                        CursorQuery(Find([p \in {"userId"} |-> "u1"]), opts))
       IN
       /\ ~exec.threw
       /\ \E data \in exec.results :
             traversal' = [traversal EXCEPT
                             !.pages = Append(@, CursorPaginationResult(opts, data))]
    /\ UNCHANGED cursorFrame

\* cursorPaginate with the store rejecting the query: the error is rethrown.
CursorPaginateFailsOp ==
    /\ MayContinue(traversal)
    /\ Exec(collection,
            CursorQuery(Find([p \in {"userId"} |-> "u1"]),
                        CursorOptionsOf(traversal))).threw
    /\ traversal' = [traversal EXCEPT !.threw = TRUE]
    /\ UNCHANGED cursorFrame

NextCursor ==
    \/ CursorPaginateOp
    \/ CursorPaginateFailsOp

SpecCursor == InitCursor /\ [][NextCursor]_vars

\* ------------------------------------------------------------------------
\* Properties of cursorPaginate (SpecCursor)
\* ------------------------------------------------------------------------

\* The _ids of the documents of page i of the traversal.
IdsOfPage(i) == {traversal.pages[i].data[k].id : k \in DOMAIN traversal.pages[i].data}

\* C19: whatever the collection (documents may share their sort value) and
\* the sort order, a page that cursorPaginate returns for the nextCursor of
\* the page before holds no document that an earlier page of the traversal
\* returned.
C19_CursorNeverReturnsASeenDocument ==
    \A i, j \in DOMAIN traversal.pages :
        i < j => IdsOfPage(i) \cap IdsOfPage(j) = {}

\* The page size the traversal asked for.
TraversalLimit == OrDefault(traversal.options.limit, 20)

\* The traversal has come to its final page.
TraversalEnded ==
    /\ ~traversal.threw
    /\ traversal.pages # <<>>
    /\ ~IsDefined(NextCursorOf(traversal))

\* C20: a traversal from no cursor over an unchanging collection of N
\* documents with limit L fails on no call, has at most L documents on every
\* page and no document on two pages or twice on one, has hasMore true
\* exactly with a nextCursor, needs no more than max(1, ceil(N / L)) pages,
\* and has returned every document once its page comes without a nextCursor.
C20_CursorTraversalVisitsEachOnce ==
    LET matches == {collection.docs[i].id : i \in {j \in DOMAIN collection.docs :
                                                    collection.docs[j].userId = "u1"}}
        pages == traversal.pages
    IN
    /\ ~traversal.threw
    /\ \A i \in DOMAIN pages :
          /\ Len(pages[i].data) <= TraversalLimit
          /\ Cardinality(IdsOfPage(i)) = Len(pages[i].data)
          /\ IdsOfPage(i) \subseteq matches
          /\ pages[i].hasMore = IsDefined(pages[i].nextCursor)
    /\ \A i, j \in DOMAIN pages : i < j => IdsOfPage(i) \cap IdsOfPage(j) = {}
    /\ Len(pages) <= Max(1, Ceil(Cardinality(matches), TraversalLimit))
    /\ TraversalEnded => UNION {IdsOfPage(i) : i \in DOMAIN pages} = matches

\* ------------------------------------------------------------------------
\* SpecDates: the date range helpers.  An instant is its milliseconds since
\* the epoch; the process runs in a zone a fixed number of hours east of
\* UTC (no daylight saving); a date is a Date object or a date-only string
\* "YYYY-MM-DD", given here by its epoch day.
\* ------------------------------------------------------------------------
MsPerHour == 3600000

MsPerDay == 86400000

\* The weekday (getDay, Sunday 0) of epoch day 0, a Thursday.
EpochWeekday == 4

\* The offsets, in hours east of UTC, of the process time zones explored.
ZoneOffsets == {-5, 0, 9}

\* A Date object
DateOf(time) == [type |-> "Date", time |-> time]

\* A date-only string
DateString(day) == [type |-> "string", day |-> day]

\* new Date(value): a date-only string is midnight UTC of its day.
NewDate(value) ==
    IF value.type = "string" THEN value.day * MsPerDay ELSE value.time

\* The local epoch day of an instant in the zone.
LocalDay(time, zone) == (time + (zone * MsPerHour)) \div MsPerDay

\* new Date(year, month, day) of a local epoch day: its local midnight.
LocalMidnight(day, zone) == (day * MsPerDay) - (zone * MsPerHour)

\* date.setHours(23, 59, 59, 999): the last millisecond of the local day of
\* the instant.
SetHoursEndOfDay(time, zone) ==
    LocalMidnight(LocalDay(time, zone), zone) + (MsPerDay - 1)

\* buildDateRangeFilter(dateRange, field) in a process of the zone; an object
\* is a function of its keys.
BuildDateRangeFilter(dateRange, field, zone) ==
    IF IsDefined(dateRange.startDate) \/ IsDefined(dateRange.endDate)
    THEN [f \in {field} |->
            [k \in (IF IsDefined(dateRange.startDate) THEN {"$gte"} ELSE {})
                   \cup (IF IsDefined(dateRange.endDate) THEN {"$lte"} ELSE {}) |->
                IF k = "$gte" THEN NewDate(dateRange.startDate[1])
                ELSE SetHoursEndOfDay(NewDate(dateRange.endDate[1]), zone)]]
    ELSE <<>>

\* getDateRangePreset(preset) called at the instant time, for the presets
\* of days and weeks; the presets of months, years and the last 30 and 90
\* days are not modelled.
GetDateRangePreset(preset, time, zone) ==
    LET today == LocalDay(time, zone)
        range(startDay, end) ==
            [startDate |-> Some(DateOf(LocalMidnight(startDay, zone))),
             endDate |-> Some(DateOf(end))]
    IN
    CASE preset = "today" -> range(today, time)
      [] preset = "yesterday" -> range(today - 1, LocalMidnight(today, zone))
      [] preset = "thisWeek" ->
            range(today - ((EpochWeekday + today) % 7), time)
      [] OTHER -> [startDate |-> Undefined, endDate |-> Undefined]

\* The instants explored: four times of day of each day.
Instants ==
    {(d * MsPerDay) + (h * MsPerHour) : d \in 1..MaxDay, h \in {0, 3, 12, 21}}

\* The dates a caller may give as a bound, or none.
DateInputs ==
    {Undefined} \cup {Some(DateString(d)) : d \in 1..MaxDay}
                \cup {Some(DateOf(t)) : t \in Instants}

Presets == {"today", "yesterday", "thisWeek", "never"}

\* What the date helpers never change.
dateFrame == <<options, lru, now, last, calls, given, touched, registry,
               requests, store, pending, collection, page, traversal, db>>

InitDates ==
    /\ options = [maxSize |-> 0, defaultTTL |-> 0]
    /\ lru = NewLRUCache(options.maxSize, options.defaultTTL)
    /\ now = 0
    /\ last = NoCall
    /\ calls = 0
    /\ given = <<>>
    /\ touched = <<>>
    /\ RegistryInit
    /\ AppIdle

\* buildDateRangeFilter(dateRange, field), called once.
BuildDateRangeFilterOp ==
    /\ helper = <<>>
    /\ \E zone \in ZoneOffsets, startDate \in DateInputs, endDate \in DateInputs,
          field \in {"date", "createdAt"} :
         LET dateRange == [startDate |-> startDate, endDate |-> endDate] IN
         helper' = [op |-> "buildDateRangeFilter", zone |-> zone, at |-> 0,
                    preset |-> "", dateRange |-> dateRange, field |-> field,
                    filter |-> BuildDateRangeFilter(dateRange, field, zone)]
    /\ UNCHANGED dateFrame

\* buildDateRangeFilter(getDateRangePreset(preset)), called once.
PresetFilterOp ==
    /\ helper = <<>>
    /\ \E zone \in ZoneOffsets, time \in Instants, preset \in Presets :
         LET dateRange == GetDateRangePreset(preset, time, zone) IN
         helper' = [op |-> "getDateRangePreset", zone |-> zone, at |-> time,
                    preset |-> preset, dateRange |-> dateRange, field |-> "date",
                    filter |-> BuildDateRangeFilter(dateRange, "date", zone)]
    /\ UNCHANGED dateFrame

NextDates ==
    \/ BuildDateRangeFilterOp
    \/ PresetFilterOp

SpecDates == InitDates /\ [][NextDates]_vars

\* ------------------------------------------------------------------------
\* Properties of the date range helpers (SpecDates)
\* ------------------------------------------------------------------------

\* The instant at which the clocks of the zone show the millisecond ms of
\* the epoch day.
LocalInstant(day, ms, zone) == (day * MsPerDay) + ms - (zone * MsPerHour)

\* C21: buildDateRangeFilter returns {} when no bound is given; otherwise
\* the fragment of field has $gte exactly when startDate was given, that
\* instant unchanged, and $lte exactly when endDate was given, 23:59:59.999
\* of the calendar day endDate names: for a date-only string the day it
\* spells, in every process time zone.
C21_DateRangeBounds ==
    (helper # <<>> /\ helper.op = "buildDateRangeFilter") =>
        LET startDate == helper.dateRange.startDate
            endDate == helper.dateRange.endDate
            filter == helper.filter
        IN
        IF ~IsDefined(startDate) /\ ~IsDefined(endDate) THEN filter = <<>>
        ELSE
        /\ DOMAIN filter = {helper.field}
        /\ ("$gte" \in DOMAIN filter[helper.field]) = IsDefined(startDate)
        /\ ("$lte" \in DOMAIN filter[helper.field]) = IsDefined(endDate)
        /\ IsDefined(startDate) =>
              filter[helper.field]["$gte"] =
                 (IF startDate[1].type = "string"
                  THEN startDate[1].day * MsPerDay ELSE startDate[1].time)
        /\ (IsDefined(endDate) /\ endDate[1].type = "string") =>
              filter[helper.field]["$lte"] =
                 LocalInstant(endDate[1].day, MsPerDay - 1, helper.zone)
        /\ (IsDefined(endDate) /\ endDate[1].type = "Date") =>
              \E day \in 0..(MaxDay + 1) :
                 /\ LocalInstant(day, 0, helper.zone) <= endDate[1].time
                 /\ endDate[1].time <= LocalInstant(day, MsPerDay - 1, helper.zone)
                 /\ filter[helper.field]["$lte"] =
                       LocalInstant(day, MsPerDay - 1, helper.zone)

\* C30: at every call time, the filter built from the preset "yesterday"
\* matches only instants of the previous local calendar day: its lower bound
\* is yesterday's local midnight and its upper bound is earlier than today's
\* local midnight.
C30_YesterdayExcludesToday ==
    (helper # <<>> /\ helper.op = "getDateRangePreset"
                   /\ helper.preset = "yesterday") =>
        \E today \in 0..(MaxDay + 1) :
            /\ LocalInstant(today, 0, helper.zone) <= helper.at
            /\ helper.at < LocalInstant(today + 1, 0, helper.zone)
            /\ helper.filter["date"]["$gte"] =
                  LocalInstant(today - 1, 0, helper.zone)
            /\ helper.filter["date"]["$lte"] < LocalInstant(today, 0, helper.zone)

\* ------------------------------------------------------------------------
\* SpecHelpers: the aggregation helpers over a collection of transactions,
\* and the five helpers with a store call that fails.  The store answers a
\* call with rows or rejects it with an error.
\* ------------------------------------------------------------------------

\* The errors a store call may reject with.
StoreErrors == {"MongoNetworkError", "MongoServerError"}

\* The store resolved the call with rows.
Resolved(rows) == [rejected |-> FALSE, rows |-> rows]

\* The store rejected the call.
Rejected(error) == [rejected |-> TRUE, error |-> error]

\* return value
Return(value) == [threw |-> FALSE, value |-> value]

\* catch (error) { ...; throw error; } with the error replaced by no rows.
RethrowAsNoRows(error) == [threw |-> FALSE, value |-> <<>>]

\* catch (error) { track.end({ error: true }); throw error; }
Rethrow(error) ==
    [threw |-> TRUE, error |-> error]

\* The calendar dates of the transactions; both years begin on a Sunday.
TransactionDates ==
    {[year |-> 2017, month |-> 1, day |-> 15], [year |-> 2023, month |-> 1, day |-> 1],
     [year |-> 2023, month |-> 1, day |-> 15], [year |-> 2023, month |-> 2, day |-> 1]}

\* The categories collection: _id to name.
CategoryLookup == [c \in {"c1"} |-> "Food"]

\* The collections of transactions explored: the i-th inserted has _id i.
TransactionModels ==
    {[docs |-> docs] :
        docs \in UNION {{d \in [1..n -> [id : 1..n, userId : PageUsers,
                                         date : TransactionDates, amount : {1, 2},
                                         categoryId : {Undefined, Some("c1")}]] :
                            \A i \in 1..n : d[i].id = i} :
                        n \in 0..MaxTransactions}}

\* $week of a date of January or February in a year that begins on a
\* Sunday: week 1 begins with the first Sunday of the year.
WeekOf(date) == ((((date.month - 1) * 31) + date.day - 1) \div 7) + 1

\* dateFormat[granularity] of a date
DateFormat(granularity, date) ==
    CASE granularity = "day" ->
            [f \in {"year", "month", "day"} |-> date[f]]
      [] granularity = "week" ->
            [f \in {"year", "week"} |->
                IF f = "week" THEN WeekOf(date) ELSE date.year]
      [] granularity = "month" ->
            [f \in {"year", "month"} |-> date[f]]

\* The sum of the amounts of a set of documents.
RECURSIVE SumAmounts(_)
SumAmounts(docs) ==
    IF docs = {} THEN 0
    ELSE LET d == CHOOSE x \in docs : TRUE IN d.amount + SumAmounts(docs \ {d})

\* $match: { userId, ...dateFilter } with the empty date range.
MatchUser(model, userId) == {d \in Range(model.docs) : d.userId = userId}

\* $group: one row per value of the key, with total, count and average (as
\* the fraction total / count).
Group(docs, KeyOf(_)) ==
    {[id |-> k,
      total |-> SumAmounts({d \in docs : KeyOf(d) = k}),
      count |-> Cardinality({d \in docs : KeyOf(d) = k}),
      average |-> <<SumAmounts({d \in docs : KeyOf(d) = k}),
                    Cardinality({d \in docs : KeyOf(d) = k})>>] :
        k \in {KeyOf(d) : d \in docs}}

\* The orders in which the store may return rows after a $sort: a row comes
\* first only if no other row must precede it; rows the sort does not tell
\* apart come in any order.
RECURSIVE OrdersBy(_, _)
OrdersBy(rows, before) ==
    IF rows = {} THEN {<<>>}
    ELSE UNION {{<<r>> \o rest : rest \in OrdersBy(rows \ {r}, before)} :
                    r \in {x \in rows : \A y \in rows : ~before[<<y, x>>]}}

\* The value a $sort compares for a field: a missing field is null, lower
\* than every number.
SortField(id, field) == IF field \in DOMAIN id THEN id[field] ELSE 0

\* a comes before b under $sort: { "_id.year": 1, "_id.month": 1, "_id.day": 1 }
TimeSeriesBefore(a, b) ==
    LET ka == <<SortField(a.id, "year"), SortField(a.id, "month"), SortField(a.id, "day")>>
        kb == <<SortField(b.id, "year"), SortField(b.id, "month"), SortField(b.id, "day")>>
    IN
    \/ ka[1] < kb[1]
    \/ ka[1] = kb[1] /\ ka[2] < kb[2]
    \/ ka[1] = kb[1] /\ ka[2] = kb[2] /\ ka[3] < kb[3]

\* The answers of the store to the pipeline of buildTimeSeries.
TimeSeriesAnswers(model, userId, granularity) ==
    LET rows == Group(MatchUser(model, userId),
                      LAMBDA d : DateFormat(granularity, d.date))
    IN {Resolved(o) : o \in OrdersBy(rows, [p \in rows \X rows |->
                                              TimeSeriesBefore(p[1], p[2])])}

\* buildTimeSeries, from the answer of the store
BuildTimeSeries(answer) ==
    IF answer.rejected THEN Rethrow(answer.error) ELSE Return(answer.rows)

\* The rows of the pipeline of buildCategorySummary before its $sort:
\* grouped by categoryId, the name looked up, "Uncategorized" without one.
CategoryRows(model, userId) ==
    {[categoryId |-> g.id,
      categoryName |-> IF IsDefined(g.id) /\ g.id[1] \in DOMAIN CategoryLookup
                       THEN CategoryLookup[g.id[1]] ELSE "Uncategorized",
      total |-> g.total, count |-> g.count, average |-> g.average] :
        g \in Group(MatchUser(model, userId), LAMBDA d : d.categoryId)}

\* The answers of the store to the pipeline of buildCategorySummary, sorted
\* by total descending.
CategorySummaryAnswers(model, userId) ==
    LET rows == CategoryRows(model, userId) IN
    {Resolved(o) : o \in OrdersBy(rows, [p \in rows \X rows |->
                                           p[1].total > p[2].total])}

\* buildCategorySummary, from the answer of the store
BuildCategorySummary(answer) ==
    IF answer.rejected THEN Rethrow(answer.error) ELSE Return(answer.rows)

\* The smallest and the largest amount of a non-empty set of documents.
MinAmount(docs) == CHOOSE a \in {d.amount : d \in docs} : \A d \in docs : a <= d.amount

MaxAmount(docs) == CHOOSE a \in {d.amount : d \in docs} : \A d \in docs : a >= d.amount

\* The answer of the store to the pipeline of buildSummaryAggregation: one
\* row for the matches, no row without a match.
SummaryAnswer(model, userId) ==
    LET docs == MatchUser(model, userId) IN
    Resolved(IF docs = {} THEN <<>>
             ELSE <<[total |-> SumAmounts(docs), count |-> Cardinality(docs),
                     average |-> <<SumAmounts(docs), Cardinality(docs)>>,
                     min |-> MinAmount(docs), max |-> MaxAmount(docs)]>>)

\* buildSummaryAggregation, from the answer of the store
BuildSummaryAggregation(answer) ==
    IF answer.rejected THEN Rethrow(answer.error)
    ELSE Return(IF answer.rows # <<>> THEN answer.rows[1]
                ELSE [total |-> 0, count |-> 0, average |-> <<0, 1>>,
                      min |-> 0, max |-> 0])

\* paginate and cursorPaginate with a store call that rejects
PaginateRejected(error) == Rethrow(error)

CursorPaginateRejected(error) == Rethrow(error)

Granularities == {"day", "week", "month"}

\* What the helpers never change.
helperFrame == <<options, lru, now, last, calls, given, touched, registry,
                 requests, store, pending, collection, page, traversal, db>>

InitHelpers ==
    /\ options = [maxSize |-> 0, defaultTTL |-> 0]
    /\ lru = NewLRUCache(options.maxSize, options.defaultTTL)
    /\ now = 0
    /\ last = NoCall
    /\ calls = 0
    /\ given = <<>>
    /\ touched = <<>>
    /\ RegistryInit
    /\ requests = <<>>
    /\ store = <<>>
    /\ pending = <<>>
    /\ collection \in TransactionModels
    /\ page = <<>>
    /\ traversal = <<>>
    /\ helper = <<>>
    /\ db = <<>>

\* A call of a helper: its name, granularity if any, the answer of the
\* store and the result.
HelperCall(op, granularity, answer, result) ==
    [op |-> op, granularity |-> granularity, answer |-> answer, result |-> result]

\* buildSummaryAggregation(Model, "u1"), called once
BuildSummaryAggregationOp ==
    /\ helper = <<>>
    /\ \E answer \in {SummaryAnswer(collection, "u1")}
                     \cup {Rejected(e) : e \in StoreErrors} :
          helper' = HelperCall("buildSummaryAggregation", "", answer,
                               BuildSummaryAggregation(answer))
    /\ UNCHANGED helperFrame

\* buildCategorySummary(Model, "u1"), called once
BuildCategorySummaryOp ==
    /\ helper = <<>>
    /\ \E answer \in CategorySummaryAnswers(collection, "u1")
                     \cup {Rejected(e) : e \in StoreErrors} :
          helper' = HelperCall("buildCategorySummary", "", answer,
                               BuildCategorySummary(answer))
    /\ UNCHANGED helperFrame

\* buildTimeSeries(Model, "u1", granularity), called once
BuildTimeSeriesOp ==
    /\ helper = <<>>
    /\ \E granularity \in Granularities :
       \E answer \in TimeSeriesAnswers(collection, "u1", granularity)
                     \cup {Rejected(e) : e \in StoreErrors} :
          helper' = HelperCall("buildTimeSeries", granularity, answer,
                               BuildTimeSeries(answer))
    /\ UNCHANGED helperFrame

\* paginate with a store call rejected, called once
PaginateRejectedOp ==
    /\ helper = <<>>
    /\ \E e \in StoreErrors :
          helper' = HelperCall("paginate", "", Rejected(e), PaginateRejected(e))
    /\ UNCHANGED helperFrame

\* cursorPaginate with its store call rejected, called once
CursorPaginateRejectedOp ==
    /\ helper = <<>>
    /\ \E e \in StoreErrors :
          helper' = HelperCall("cursorPaginate", "", Rejected(e),
                               CursorPaginateRejected(e))
    /\ UNCHANGED helperFrame

NextHelpers ==
    \/ BuildSummaryAggregationOp
    \/ BuildCategorySummaryOp
    \/ BuildTimeSeriesOp
    \/ PaginateRejectedOp
    \/ CursorPaginateRejectedOp

SpecHelpers == InitHelpers /\ [][NextHelpers]_vars

\* ------------------------------------------------------------------------
\* Properties of the aggregation helpers (SpecHelpers)
\* ------------------------------------------------------------------------

\* Bucket a is chronologically earlier than bucket b: by year, then by week
\* or by month and day, whichever the buckets have.
EarlierBucket(a, b) ==
    \/ a.year < b.year
    \/ /\ a.year = b.year
       /\ IF "week" \in DOMAIN a THEN a.week < b.week
          ELSE \/ a.month < b.month
               \/ /\ a.month = b.month
                  /\ "day" \in DOMAIN a
                  /\ a.day < b.day

\* C22: for each granularity, the rows buildTimeSeries returns are in
\* chronologically ascending order of their bucket: of any two rows, the one
\* with the earlier bucket comes first.
C22_TimeSeriesAscending ==
    (helper # <<>> /\ helper.op = "buildTimeSeries" /\ ~helper.result.threw) =>
        LET rows == helper.result.value IN
        \A i, j \in DOMAIN rows :
            EarlierBucket(rows[i].id, rows[j].id) => i < j

\* C23: when the store call inside paginate, cursorPaginate,
\* buildSummaryAggregation, buildCategorySummary or buildTimeSeries fails,
\* the helper raises that same error to its caller and returns nothing in
\* its place.
C23_StoreErrorsPropagate ==
    (helper # <<>> /\ helper.answer.rejected) =>
        /\ helper.result.threw
        /\ helper.result.error = helper.answer.error

\* The store rejected the pipeline of buildSummaryAggregation over a
\* collection with a transaction of the user, and the helper threw.
C23_Witness ==
    /\ helper # <<>>
    /\ helper.op = "buildSummaryAggregation"
    /\ helper.answer = Rejected("MongoNetworkError")
    /\ helper.result.threw
    /\ \E i \in DOMAIN collection.docs : collection.docs[i].userId = "u1"

\* ------------------------------------------------------------------------
\* SpecSweep: the test instance with its interval timer.  The timer fires
\* between calls, as often as the event loop lets it; under the fairness
\* condition it keeps firing.
\* ------------------------------------------------------------------------

\* cleanup() that stops at the first expired entry it removed.
CleanupFirst(c, t) ==
    LET expired == {i \in DOMAIN c.cache : IsExpired(c.cache[i], t)} IN
    IF expired = {} THEN c
    ELSE LET i == CHOOSE x \in expired : \A y \in expired : x <= y
             cache == RemoveAt(c.cache, i)
         IN [c EXCEPT !.cache = cache, !.stats.size = Len(cache)]

\* cleanup() as the timer's callback runs it
Sweep(c, t) ==
    Cleanup(c, t)

\* setInterval(() => this.cleanup(), interval): the timer fires.
SweepOp ==
    /\ \E c2 \in {Sweep(lru, now)} :
        /\ lru' = c2
        /\ last' = Call("cleanup", <<>>, <<>>)
        /\ given' = GivenAfter(c2)
        /\ touched' = TouchedAfter(c2)
    /\ UNCHANGED <<options, now, calls, registry, appVars>>

NextSweep ==
    \/ SetOp
    \/ GetOp
    \/ Tick
    \/ SweepOp

\* The instances of the default capacity, which the sweep is indifferent to.
InitSweep == Init /\ options.maxSize = 0

SpecSweep == InitSweep /\ [][NextSweep]_vars /\ WF_vars(SweepOp)

\* ------------------------------------------------------------------------
\* Properties of the sweep (SpecSweep)
\* ------------------------------------------------------------------------

\* No entry the instance holds has a lapsed ttl.
NoLapsedEntry ==
    \A i \in DOMAIN lru.cache : now - lru.cache[i].timestamp <= lru.cache[i].ttl

\* Every sweep removes all and only the entries with now - timestamp > ttl,
\* keeps the others as they are and in their order, and leaves hits, misses
\* and evictions unchanged.
SweepRemovesTheExpired ==
    [][SweepOp =>
        /\ \A i \in DOMAIN lru'.cache :
              /\ now - lru'.cache[i].timestamp <= lru'.cache[i].ttl
              /\ \E j \in DOMAIN lru.cache : lru.cache[j] = lru'.cache[i]
        /\ \A j \in DOMAIN lru.cache :
              now - lru.cache[j].timestamp <= lru.cache[j].ttl
                 => \E i \in DOMAIN lru'.cache : lru'.cache[i] = lru.cache[j]
        /\ \A i, j \in DOMAIN lru'.cache :
              i < j => IndexOf(lru, lru'.cache[i].key) < IndexOf(lru, lru'.cache[j].key)
        /\ lru'.stats.hits = lru.stats.hits
        /\ lru'.stats.misses = lru.stats.misses
        /\ lru'.stats.evictions = lru.stats.evictions]_vars

\* C24: with the sweep timer firing again and again, every entry whose ttl
\* has lapsed is eventually removed, read or not: a lapsed entry stays
\* lapsed while it is held, so it is gone by the next state without a lapsed
\* entry, and such states recur for ever; and each sweep removes all and
\* only the lapsed entries and leaves hits, misses, evictions and the
\* unexpired entries unchanged.
C24_SweepEventuallyRemovesLapsed ==
    /\ SweepRemovesTheExpired
    /\ []<>NoLapsedEntry

\* A sweep ran at the end of the clock on an instance whose entries, stored
\* at time 0 with a ttl of 1 ms and never read, had lapsed: it holds none.
C24_Witness ==
    /\ last.op = "cleanup"
    /\ calls = 0
    /\ now = MaxTime
    /\ lru.defaultTTL = 1
    /\ lru.cache = <<>>
    /\ lru.stats.size = 0
    /\ lru.stats.hits = 0 /\ lru.stats.misses = 0

\* ------------------------------------------------------------------------
\* SpecOverlap: getOrSet calls that overlap, with the clock standing still.
\* ------------------------------------------------------------------------
NextOverlap ==
    \/ GetOrSetBegin
    \/ FallbackResolves
    \/ FallbackRejects

SpecOverlap == Init /\ [][NextOverlap]_vars

\* ------------------------------------------------------------------------
\* Properties of concurrent getOrSet calls (SpecOverlap)
\* ------------------------------------------------------------------------

\* The calls other than i that await their producer for the key of call i.
AwaitingSameKey(callSeq, i) ==
    {j \in DOMAIN callSeq : j # i /\ callSeq[j].key = callSeq[i].key
                                /\ callSeq[j].pc = "awaiting"}

\* C25: getOrSet calls for the same absent key that all start before any of
\* their producers completes each invoke the producer, once per call and
\* whatever calls already await theirs; each call returns the value of its
\* own producer; and every completion stores its value, so that the entry
\* finally stored is the value of the producer that completed last.
C25_ConcurrentGetOrSetNotDeduplicated ==
    [][/\ (/\ Len(pending') = Len(pending) + 1
           /\ pending'[Len(pending')].key \notin KeysOf(lru)
           /\ AwaitingSameKey(pending', Len(pending')) # {})
          => /\ pending'[Len(pending')].invoked = 1
             /\ pending'[Len(pending')].pc = "awaiting"
             /\ \A j \in DOMAIN pending : pending'[j] = pending[j]
       /\ \A i \in DOMAIN pending :
            (pending[i].pc = "awaiting" /\ pending'[i].pc = "returned")
                => /\ pending'[i].invoked = 1
                   /\ IsDefined(pending'[i].produced)
                   /\ pending'[i].ret = pending'[i].produced
                   /\ pending[i].key \in KeysOf(lru')
                   /\ Some(EntryOf(lru', pending[i].key).value) = pending'[i].produced
                   /\ \A j \in DOMAIN pending : j # i => pending'[j] = pending[j]]_vars

\* Two calls for one key that was absent both invoked their producer; the
\* second to start completed first with "v2", the first completed last with
\* "v1", and the key holds "v1".
C25_Witness ==
    /\ Len(pending) = 2
    /\ now = 0
    /\ pending[1].key = pending[2].key
    /\ pending[1].invoked = 1 /\ pending[2].invoked = 1
    /\ pending[1].ret = Some("v1") /\ pending[2].ret = Some("v2")
    /\ pending[1].key \in KeysOf(lru)
    /\ EntryOf(lru, pending[1].key).value = "v1"
    /\ Len(lru.cache) = 1

\* ------------------------------------------------------------------------
\* SpecConnect: connectDB of lib/dbConnect, called by the handlers of one
\* process while no connection is established.  A call runs up to its
\* await; the continuation of an await is a microtask, queued when the
\* awaited promise settles (at once if it has settled) and run in queue
\* order; a handler reaches its call of connectDB in a microtask as well.
\* ------------------------------------------------------------------------

\* connectionPromise = null
NoPromise == 0

\* The module state before the first call, no caller having called.
NewConnectionState ==
    [isConnected |-> FALSE, isConnecting |-> FALSE, connectionAttempts |-> 0,
     readyState |-> 0, connectionPromise |-> NoPromise,
     attempts |-> <<>>,
     callers |-> [c \in 1..MaxCallers |-> [pc |-> "idle", awaits |-> NoPromise]],
     microtasks |-> <<>>]

\* The microtask that runs connectDB for a caller up to its first await.
CallTask(c) == [kind |-> "call", caller |-> c]

\* The microtask that resumes a caller after its await.
ResumeTask(c) == [kind |-> "resume", caller |-> c]

\* await promise by a caller: the caller waits; the continuation is queued
\* at once when the promise has settled, and with the other reactions of
\* the promise when it settles.
Await(d, c, promise) ==
    LET waiting == [d EXCEPT !.callers[c] = [pc |-> "awaiting", awaits |-> promise]]
    IN IF d.attempts[promise].state = "pending"
       THEN [waiting EXCEPT !.attempts[promise].waiters = Append(@, c)]
       ELSE [waiting EXCEPT !.microtasks = Append(@, ResumeTask(c))]

\* connectDB up to its return or its await.
ConnectDBBegin(d, c) ==
    IF d.isConnected /\ d.readyState = 1
    THEN [d EXCEPT !.callers[c].pc = "returned"]
    ELSE IF d.isConnecting /\ d.connectionPromise # NoPromise
    THEN Await(d, c, d.connectionPromise)
    ELSE LET promise == Len(d.attempts) + 1
             started == [d EXCEPT !.isConnecting = TRUE,
                                  !.connectionAttempts = @ + 1,
                                  !.connectionPromise = promise,
                                  !.attempts = Append(@, [state |-> "pending",
                                                          by |-> c,
                                                          waiters |-> <<>>])]
         IN Await(started, c, promise)

\* connectDB from its await on: the return of a caller that waited on the
\* attempt of another, the update after the caller's own attempt, or the
\* catch block.
ConnectDBResume(d, c) ==
    LET attempt == d.attempts[d.callers[c].awaits] IN
    IF attempt.state = "rejected"
    THEN [d EXCEPT !.isConnected = FALSE, !.isConnecting = FALSE,
                   !.connectionPromise = NoPromise,
                   !.callers[c].pc = "threw"]
    ELSE IF attempt.by = c
    THEN [d EXCEPT !.isConnected = TRUE, !.isConnecting = FALSE,
                   !.callers[c].pc = "returned"]
    ELSE [d EXCEPT !.callers[c].pc = "returned"]

\* The reactions of a promise that settles, queued in the order of the awaits.
RECURSIVE QueueReactions(_, _)
QueueReactions(microtasks, waiters) ==
    IF waiters = <<>> THEN microtasks
    ELSE QueueReactions(Append(microtasks, ResumeTask(Head(waiters))), Tail(waiters))

\* What connectDB never changes.
connectFrame == <<options, lru, now, last, calls, given, touched, registry,
                  requests, store, pending, collection, page, traversal, helper>>

InitConnect ==
    /\ options = [maxSize |-> 0, defaultTTL |-> 0]
    /\ lru = NewLRUCache(options.maxSize, options.defaultTTL)
    /\ now = 0
    /\ last = NoCall
    /\ calls = 0
    /\ given = <<>>
    /\ touched = <<>>
    /\ RegistryInit
    /\ requests = <<>>
    /\ store = <<>>
    /\ pending = <<>>
    /\ collection = <<>>
    /\ page = <<>>
    /\ traversal = <<>>
    /\ helper = <<>>
    /\ db = NewConnectionState

\* A handler comes to its await connectDB(): the call is the next microtask
\* of that handler.
ConnectScheduled ==
    /\ \E c \in 1..MaxCallers :
        /\ db.callers[c].pc = "idle"
        /\ \A b \in 1..(c - 1) : db.callers[b].pc # "idle"
        /\ db' = [db EXCEPT !.callers[c].pc = "queued",
                            !.microtasks = Append(@, CallTask(c))]
    /\ UNCHANGED connectFrame

\* The first microtask of the queue runs.
RunMicrotask ==
    /\ db.microtasks # <<>>
    /\ LET task == Head(db.microtasks)
           rest == [db EXCEPT !.microtasks = Tail(@)]
       IN db' = IF task.kind = "call" THEN ConnectDBBegin(rest, task.caller)
                ELSE ConnectDBResume(rest, task.caller)
    /\ UNCHANGED connectFrame

\* mongoose.connect resolves: the "connected" handler runs and the promise
\* resolves.
MongooseConnects ==
    /\ \E promise \in DOMAIN db.attempts :
        /\ db.attempts[promise].state = "pending"
        /\ db' = [db EXCEPT !.isConnected = TRUE, !.isConnecting = FALSE,
                            !.readyState = 1,
                            !.attempts[promise].state = "resolved",
                            !.microtasks = QueueReactions(@, db.attempts[promise].waiters)]
    /\ UNCHANGED connectFrame

\* mongoose.connect rejects: the "error" handler runs and the promise rejects.
MongooseFails ==
    /\ \E promise \in DOMAIN db.attempts :
        /\ db.attempts[promise].state = "pending"
        /\ db' = [db EXCEPT !.isConnected = FALSE,
                            !.attempts[promise].state = "rejected",
                            !.microtasks = QueueReactions(@, db.attempts[promise].waiters)]
    /\ UNCHANGED connectFrame

NextConnect ==
    \/ ConnectScheduled
    \/ RunMicrotask
    \/ MongooseConnects
    \/ MongooseFails

SpecConnect == InitConnect /\ [][NextConnect]_vars

\* ------------------------------------------------------------------------
\* Properties of connectDB (SpecConnect)
\* ------------------------------------------------------------------------

\* The mongoose.connect attempts in flight.
InFlight == {promise \in DOMAIN db.attempts : db.attempts[promise].state = "pending"}

\* C26: in every interleaving of connectDB calls made while no connection is
\* established, at most one mongoose.connect attempt is in flight at any
\* time; and a caller that waited on an attempt that failed has received an
\* error once it has resumed.
C26_OneConnectAttemptInFlight ==
    /\ Cardinality(InFlight) <= 1
    /\ \A c \in 1..MaxCallers :
          (db.callers[c].pc \in {"returned", "threw"}
             /\ db.callers[c].awaits # NoPromise)
          => (db.callers[c].pc = "threw")
                = (db.attempts[db.callers[c].awaits].state = "rejected")

\* ------------------------------------------------------------------------
\* Properties of getStats (Spec)
\* ------------------------------------------------------------------------

\* C27: in every reachable state of an LRUCache, after any sequence of set,
\* get, has, delete, deletePattern, clear and sweep operations, gets and
\* has-checks of expired entries included, the size that getStats() reports
\* is the number of entries the cache holds.
C27_StatsSizeIsEntryCount ==
    lru.stats.size = Len(lru.cache)

\* ------------------------------------------------------------------------
\* SpecInterleaved: a GET /api/categories in slot 1 and the handlers that
\* create, update or delete a category in slot 2, both in flight at once.
\* Each handler is suspended at connectDB and at its store calls, and the
\* steps of the two slots interleave in any order.
\* ------------------------------------------------------------------------

CategoryWriters == {CategoriesPOST, CategoryPUT, CategoryDELETE}

InitInterleaved == InitRoutes({1, 2})

NextInterleaved ==
    \/ Invoke(1, {CategoriesGET}, MaxListRequests)
    \/ Invoke(2, CategoryWriters, MaxListRequests)
    \/ Connected(1)
    \/ Connected(2)
    \/ StoreExecutes(1)
    \/ StoreExecutes(2)
    \/ Resume(1)
    \/ Resume(2)

SpecInterleaved == InitInterleaved /\ [][NextInterleaved]_vars

\* ------------------------------------------------------------------------
\* Properties of the interleaved category requests (SpecInterleaved)
\* ------------------------------------------------------------------------

\* No handler is in flight.
AllReturned == \A r \in DOMAIN requests : requests[r].pc \in {"idle", "done"}

\* Every list categoriesCache holds for a user is the list the store would
\* answer now for the key's type parameter.
CachedListsAreCurrent ==
    \A u \in UserIds : \A t \in TypeParams :
        LET key == CategoriesCacheKey(u, t) IN
        key \in KeysOf(categoriesCache)
            => EntryOf(categoriesCache, key).value
                   = CategoryFind(store, CategoryFilter(u, t))

\* C28: for any interleaving of a GET /api/categories of a user with a
\* category create, update or delete of that user, once both requests have
\* returned, categoriesCache holds no entry for the user whose list differs
\* from the store's current categories of the user.
C28_NoStaleListAfterInterleaving ==
    AllReturned => CachedListsAreCurrent

\* ------------------------------------------------------------------------
\* SpecCascade: the handlers that create and delete a category in slot 1
\* and the transaction handlers that validate the categoryId of the body
\* in slot 2, both in flight at once and suspended at each store call.
\* ------------------------------------------------------------------------

CategoryLifecycle == {CategoriesPOST, CategoryDELETE}

\* The handlers that await Category.exists before they write a transaction.
CheckedTransactionHandlers == {IncomesPOST, IncomePUT, ExpensePUT}

NextCascade ==
    \/ Invoke(1, CategoryLifecycle, MaxListRequests)
    \/ Invoke(2, CheckedTransactionHandlers, MaxListRequests)
    \/ Connected(1)
    \/ Connected(2)
    \/ StoreExecutes(1)
    \/ StoreExecutes(2)
    \/ Resume(1)
    \/ Resume(2)

SpecCascade == InitInterleaved /\ [][NextCascade]_vars

\* ------------------------------------------------------------------------
\* Properties of the cascade check (SpecCascade)
\* ------------------------------------------------------------------------

\* The stored transaction names no category, or one the store holds.
RefersToStoredCategory(t) ==
    IsDefined(t.categoryId)
        => \E j \in DOMAIN store.categories :
              store.categories[j].id = t.categoryId[1]

\* C29: after any interleaving of DELETE /api/categories/[id] with the
\* expense and income create and update requests of the same user, every
\* stored expense or income with a categoryId refers to a category the
\* store still holds.
C29_NoDanglingCategoryReference ==
    AllReturned
        => \A i \in DOMAIN store.transactions :
              RefersToStoredCategory(store.transactions[i])

============================================================================
